---- MODULE Spec2Model ----
(***************************************************************************)
(* ROI-DSL front end: the line-oriented parser of compiler/parser.py and   *)
(* the validator of compiler/validator.py.                                 *)
(* Source text is a string; lines, identifiers and values are strings and  *)
(* the regular expressions of the parser are matched character by          *)
(* character, the way re.match does (anchored at the start of the line,    *)
(* not at its end).                                                        *)
(***************************************************************************)
EXTENDS Integers, Sequences, FiniteSets, TLC

VARIABLES parsers, validators, cli

vars == <<parsers, validators, cli>>

(***************************************************************************)
(* Bounds of the model.                                                    *)
(***************************************************************************)
\* Largest number of '\n'-separated raw lines of a source text.
MaxLines == 2
\* Largest number of raw lines of each text of a pair of texts.
MaxPairLines == 2
\* Largest number of raw lines of a text of fact-table lines.
MaxFactLines == 2
\* Largest number of raw lines of a text with blank and comment lines.
MaxBlankLines == 3
\* Largest number of raw lines of a text of the mandatory directives.
MaxMandatoryLines == 4
\* Largest number of raw lines of a text of repeated declarations.
MaxDuplicateLines == 4
\* Largest number of raw lines of a text of metrics and derived metrics.
MaxReferenceLines == 3
\* Largest number of raw lines of a text of triggers.
MaxTriggerLines == 2
\* Largest number of calls of validate() on one validator.
MaxValidateCalls == 2
\* Largest number of raw lines of the file of a command.
MaxCliLines == 3
\* Largest number of recompilations of watch_file.
MaxRecompiles == 1
\* Largest number of calls of parse() on one parser.
MaxParseCalls == 2
\* Largest number of derived-metric lines of a document that has its
\* mandatory fields.
MaxCycleLines == 2

(***************************************************************************)
(* Characters and strings.                                                 *)
(***************************************************************************)
NL == "\n"
QUOTE == "\""

\* str.strip() and the regex class \s, on the characters the texts use.
Whitespace == {" ", "\t"}

\* The regex class \d.
Digit == {"0", "1", "2", "3", "4", "5", "6", "7", "8", "9"}

\* The regex class \w.
WordChar ==
    Digit \cup {"_"} \cup
    {"a", "b", "c", "d", "e", "f", "g", "h", "i", "j", "k", "l", "m",
     "n", "o", "p", "q", "r", "s", "t", "u", "v", "w", "x", "y", "z"} \cup
    {"A", "B", "C", "D", "E", "F", "G", "H", "I", "J", "K", "L", "M",
     "N", "O", "P", "Q", "R", "S", "T", "U", "V", "W", "X", "Y", "Z"}

\* The regex class [\d.].
DigitOrDot == Digit \cup {"."}

\* s[i] (1-based); "" beyond the end of s.
Ch(s, i) == IF 1 <= i /\ i <= Len(s) THEN SubSeq(s, i, i) ELSE ""

\* str.startswith(prefix).
startswith(s, prefix) ==
    Len(s) >= Len(prefix) /\ SubSeq(s, 1, Len(prefix)) = prefix

\* Greedy class*: the first position >= i whose character is not in class.
RECURSIVE SkipIn(_, _, _)
SkipIn(s, i, class) ==
    IF i <= Len(s) /\ Ch(s, i) \in class THEN SkipIn(s, i + 1, class) ELSE i

\* Greedy [^"]*: the first position >= i holding a double quote (or Len+1).
RECURSIVE SkipNotQuote(_, _)
SkipNotQuote(s, i) ==
    IF i <= Len(s) /\ Ch(s, i) # QUOTE THEN SkipNotQuote(s, i + 1) ELSE i

\* The first position of sub in s at or after i; 0 when there is none.
RECURSIVE Find(_, _, _)
Find(s, sub, i) ==
    IF i + Len(sub) - 1 > Len(s) THEN 0
    ELSE IF SubSeq(s, i, i + Len(sub) - 1) = sub THEN i
    ELSE Find(s, sub, i + 1)

\* str.strip().
RECURSIVE LStrip(_)
LStrip(s) ==
    IF Len(s) > 0 /\ Ch(s, 1) \in Whitespace THEN LStrip(SubSeq(s, 2, Len(s)))
    ELSE s

RECURSIVE RStrip(_)
RStrip(s) ==
    IF Len(s) > 0 /\ Ch(s, Len(s)) \in Whitespace
    THEN RStrip(SubSeq(s, 1, Len(s) - 1))
    ELSE s

strip(s) == RStrip(LStrip(s))

\* str.split('\n'): the pieces between the newlines, empty pieces kept.
RECURSIVE split(_)
split(text) ==
    LET n == Find(text, NL, 1) IN
    IF n = 0 THEN <<text>>
    ELSE <<SubSeq(text, 1, n - 1)>> \o split(SubSeq(text, n + 1, Len(text)))

\* '\n'.join(pieces).
RECURSIVE join(_)
join(pieces) ==
    IF Len(pieces) = 0 THEN ""
    ELSE IF Len(pieces) = 1 THEN pieces[1]
    ELSE pieces[1] \o NL \o join(Tail(pieces))

\* [f(x) for x in xs if keep(x)] of __init__: stripped lines, blank ones dropped.
RECURSIVE StripNonBlank(_)
StripNonBlank(raw) ==
    IF Len(raw) = 0 THEN <<>>
    ELSE IF strip(raw[1]) # "" THEN <<strip(raw[1])>> \o StripNonBlank(Tail(raw))
    ELSE StripNonBlank(Tail(raw))

(***************************************************************************)
(* The AST (parser.py, the node classes and ROIDSLAST).                    *)
(* Optional[X] is a sequence of at most one X: None is <<>>.               *)
(***************************************************************************)
None == <<>>
Some(x) == <<x>>

PersonaNode(name, value) == [name |-> name, value |-> value]
GoalNode(name, value) == [name |-> name, value |-> value]
MetricNode(name, value) == [name |-> name, value |-> value]
RMetricNode(name, expr) == [name |-> name, expr |-> expr]
TriggerNode(condition, action) == [condition |-> condition, action |-> action]
VariantNode(type, value) == [type |-> type, value |-> value]

\* An empty dict, and d[key] = value.
EmptyDict == [k \in {} |-> ""]
\* d[key] = value, were a key already present left alone (dict.setdefault).
DictSet_KeepsFirst(d, key, value) ==
    [k \in DOMAIN d \cup {key} |-> IF k \in DOMAIN d THEN d[k] ELSE value]

DictSet(d, key, value) ==
    [k \in DOMAIN d \cup {key} |-> IF k = key THEN value ELSE d[k]]

ROIDSLAST ==
    [persona |-> None, personas |-> <<>>, goals |-> <<>>, metrics |-> <<>>,
     rmetrics |-> <<>>, triggers |-> <<>>, variants |-> <<>>,
     credentials |-> EmptyDict, case_studies |-> EmptyDict,
     services |-> EmptyDict, training |-> EmptyDict,
     vroi_inputs |-> EmptyDict, vroi_outputs |-> EmptyDict,
     stats |-> EmptyDict, microtraining |-> EmptyDict,
     seo |-> EmptyDict, contact |-> EmptyDict,
     sk_tags |-> <<>>, output |-> None]

(***************************************************************************)
(* Exceptions.  A message is kept by its parts: the fixed wording (fmt),   *)
(* the line number it prints (lineno, <<>> when it prints none), the text  *)
(* it quotes, and the list it enumerates (listed, <<>> when none).         *)
(***************************************************************************)
Exc(type, fmt, lineno, text, listed) ==
    [type |-> type, fmt |-> fmt, lineno |-> lineno, text |-> text,
     listed |-> listed]

NoExc == Exc("", "", <<>>, "", <<>>)

\* raise SyntaxError(f"Invalid <what> syntax: {line}")
InvalidSyntax(what, line) ==
    Exc("SyntaxError", "Invalid " \o what \o " syntax: ", <<>>, line, <<>>)

\* What a handler does to the AST: it returns normally or it raises.
Returned(ast) == [raised |-> FALSE, ast |-> ast, exc |-> NoExc]
Raised(ast, exc) == [raised |-> TRUE, ast |-> ast, exc |-> exc]

(***************************************************************************)
(* float(str) on the strings [\d.]+ can hold.  A value is the decimal      *)
(* num / 10^scale with no trailing zero in the fraction, so that "0.70"    *)
(* and "0.7" are one value; the literals here are short enough for         *)
(* distinct decimals to be distinct doubles.                               *)
(***************************************************************************)
DigitVal(c) == CHOOSE n \in 0..9 : ToString(n) = c

RECURSIVE CountDots(_)
CountDots(s) ==
    IF Len(s) = 0 THEN 0
    ELSE (IF Ch(s, 1) = "." THEN 1 ELSE 0) + CountDots(SubSeq(s, 2, Len(s)))

\* The integer the digits of s spell, its dots skipped.
RECURSIVE DigitsValue(_, _)
DigitsValue(s, acc) ==
    IF Len(s) = 0 THEN acc
    ELSE IF Ch(s, 1) = "." THEN DigitsValue(SubSeq(s, 2, Len(s)), acc)
    ELSE DigitsValue(SubSeq(s, 2, Len(s)), 10 * acc + DigitVal(Ch(s, 1)))

RECURSIVE Normalize(_, _)
Normalize(num, scale) ==
    IF scale > 0 /\ num % 10 = 0 THEN Normalize(num \div 10, scale - 1)
    ELSE [num |-> num, scale |-> scale]

float(s) ==
    LET dots == CountDots(s)
        dot == Find(s, ".", 1)
    IN  IF dots > 1 \/ Len(s) - dots = 0
        THEN [ok |-> FALSE, value |-> Normalize(0, 0)]
        ELSE [ok |-> TRUE,
              value |-> Normalize(DigitsValue(s, 0),
                                  IF dot = 0 THEN 0 ELSE Len(s) - dot)]

(***************************************************************************)
(* The patterns of the handlers, as re.match applies them: from the start  *)
(* of the line, whatever follows the match being ignored.                  *)
(***************************************************************************)
NoMatch == [ok |-> FALSE, g1 |-> "", g2 |-> ""]

\* \s*:\s*"([^"]*)", a pattern that admits nothing between the quotes.
MatchColonQuoted_AdmitsEmpty(line, c) ==
    LET d == SkipIn(line, c, Whitespace)
        e == SkipIn(line, d + 1, Whitespace)
        f == SkipNotQuote(line, e + 1)
    IN  IF /\ Ch(line, d) = ":"
           /\ Ch(line, e) = QUOTE
           /\ Ch(line, f) = QUOTE
        THEN [ok |-> TRUE, g1 |-> "", g2 |-> SubSeq(line, e + 1, f - 1)]
        ELSE NoMatch

\* \s*:\s*"([^"]+)" from position c of line; g2 is the quoted text.
MatchColonQuoted(line, c) ==
    LET d == SkipIn(line, c, Whitespace)
        e == SkipIn(line, d + 1, Whitespace)
        f == SkipNotQuote(line, e + 1)
    IN  IF /\ Ch(line, d) = ":"
           /\ Ch(line, e) = QUOTE
           /\ f > e + 1
           /\ Ch(line, f) = QUOTE
        THEN [ok |-> TRUE, g1 |-> "", g2 |-> SubSeq(line, e + 1, f - 1)]
        ELSE NoMatch

\* <keyword>\s+(\w+)\s*:\s*"([^"]+)"
MatchKeyed(keyword, line) ==
    LET a == Len(keyword) + 1
        b == SkipIn(line, a, Whitespace)
        c == SkipIn(line, b, WordChar)
        m == MatchColonQuoted(line, c)
    IN  IF startswith(line, keyword) /\ b > a /\ c > b /\ m.ok
        THEN [ok |-> TRUE, g1 |-> SubSeq(line, b, c - 1), g2 |-> m.g2]
        ELSE NoMatch

\* <prefix>(\w+)\s*:\s*"([^"]+)"     (SEO_, CONTACT_)
MatchPrefixed(prefix, line) ==
    LET b == Len(prefix) + 1
        c == SkipIn(line, b, WordChar)
        m == MatchColonQuoted(line, c)
    IN  IF startswith(line, prefix) /\ c > b /\ m.ok
        THEN [ok |-> TRUE, g1 |-> SubSeq(line, b, c - 1), g2 |-> m.g2]
        ELSE NoMatch

\* METRIC\s+(\w+)\s*:\s*([\d.]+)
MatchMetric(line) ==
    LET a == Len("METRIC") + 1
        b == SkipIn(line, a, Whitespace)
        c == SkipIn(line, b, WordChar)
        d == SkipIn(line, c, Whitespace)
        e == SkipIn(line, d + 1, Whitespace)
        f == SkipIn(line, e, DigitOrDot)
    IN  IF /\ startswith(line, "METRIC")
           /\ b > a
           /\ c > b
           /\ Ch(line, d) = ":"
           /\ f > e
        THEN [ok |-> TRUE, g1 |-> SubSeq(line, b, c - 1),
              g2 |-> SubSeq(line, e, f - 1)]
        ELSE NoMatch

\* \s+THEN\s+(.+) from position e of line: the start of the group, 0 if none.
ThenAt(line, e) ==
    LET t == SkipIn(line, e, Whitespace)
        u == SkipIn(line, t + 4, Whitespace)
    IN  IF /\ t > e
           /\ SubSeq(line, t, IF t + 3 <= Len(line) THEN t + 3 ELSE t - 1) = "THEN"
           /\ u > t + 4
           /\ u <= Len(line)
        THEN u ELSE 0

\* WHEN\s+(.+?)\s+THEN\s+(.+): \s+ greedy, (.+?) lazy, both backtracking.
\* The match re finds first takes the longest \s+ and, for it, the shortest
\* group 1 that lets the rest match.
MatchTrigger(line) ==
    LET a == Len("WHEN") + 1
        b == SkipIn(line, a, Whitespace)
        \* (p, e): group 1 is line[p .. e-1]
        cand == {pe \in ((a + 1)..b) \X ((a + 2)..(Len(line) + 1)) :
                    pe[2] > pe[1] /\ ThenAt(line, pe[2]) # 0}
        best == CHOOSE pe \in cand :
                    \A qe \in cand :
                        \/ pe[1] > qe[1]
                        \/ (pe[1] = qe[1] /\ pe[2] <= qe[2])
    IN  IF startswith(line, "WHEN") /\ b > a /\ cand # {}
        THEN [ok |-> TRUE, g1 |-> SubSeq(line, best[1], best[2] - 1),
              g2 |-> SubSeq(line, ThenAt(line, best[2]), Len(line))]
        ELSE NoMatch

\* OUTPUT\s+(\w+)
MatchOutput(line) ==
    LET a == Len("OUTPUT") + 1
        b == SkipIn(line, a, Whitespace)
        c == SkipIn(line, b, WordChar)
    IN  IF startswith(line, "OUTPUT") /\ b > a /\ c > b
        THEN [ok |-> TRUE, g1 |-> SubSeq(line, b, c - 1), g2 |-> ""]
        ELSE NoMatch

(***************************************************************************)
(* The handlers of ROIDSLParser.  Each takes the AST built so far and the  *)
(* stripped line, and returns the AST it leaves or raises.                 *)
(***************************************************************************)
\* _parse_persona, were the primary persona set by every PERSONA line.
_parse_persona_LastIsPrimary(ast, line) ==
    LET match == MatchKeyed("PERSONA", line)
        persona_node == PersonaNode(match.g1, match.g2)
    IN  IF ~match.ok THEN Raised(ast, InvalidSyntax("PERSONA", line))
        ELSE Returned([ast EXCEPT
                 !.persona = Some(persona_node),
                 !.personas = Append(@, persona_node)])

_parse_persona(ast, line) ==
    LET match == MatchKeyed("PERSONA", line)
        persona_node == PersonaNode(match.g1, match.g2)
    IN  IF ~match.ok THEN Raised(ast, InvalidSyntax("PERSONA", line))
        ELSE Returned([ast EXCEPT
                 !.persona = IF ast.persona = None THEN Some(persona_node) ELSE @,
                 !.personas = Append(@, persona_node)])

_parse_credential(ast, line) ==
    LET match == MatchKeyed("CREDENTIAL", line) IN
    IF ~match.ok THEN Raised(ast, InvalidSyntax("CREDENTIAL", line))
    ELSE Returned([ast EXCEPT !.credentials = DictSet(@, match.g1, match.g2)])

_parse_case_study(ast, line) ==
    LET match == MatchKeyed("CASE_STUDY", line) IN
    IF ~match.ok THEN Raised(ast, InvalidSyntax("CASE_STUDY", line))
    ELSE Returned([ast EXCEPT !.case_studies = DictSet(@, match.g1, match.g2)])

_parse_service(ast, line) ==
    LET match == MatchKeyed("SERVICE", line) IN
    IF ~match.ok THEN Raised(ast, InvalidSyntax("SERVICE", line))
    ELSE Returned([ast EXCEPT !.services = DictSet(@, match.g1, match.g2)])

_parse_training(ast, line) ==
    LET match == MatchKeyed("TRAINING", line) IN
    IF ~match.ok THEN Raised(ast, InvalidSyntax("TRAINING", line))
    ELSE Returned([ast EXCEPT !.training = DictSet(@, match.g1, match.g2)])

_parse_vroi_input(ast, line) ==
    LET match == MatchKeyed("VROI_INPUT", line) IN
    IF ~match.ok THEN Raised(ast, InvalidSyntax("VROI_INPUT", line))
    ELSE Returned([ast EXCEPT !.vroi_inputs = DictSet(@, match.g1, match.g2)])

_parse_vroi_output(ast, line) ==
    LET match == MatchKeyed("VROI_OUTPUT", line) IN
    IF ~match.ok THEN Raised(ast, InvalidSyntax("VROI_OUTPUT", line))
    ELSE Returned([ast EXCEPT !.vroi_outputs = DictSet(@, match.g1, match.g2)])

_parse_stat(ast, line) ==
    LET match == MatchKeyed("STAT", line) IN
    IF ~match.ok THEN Raised(ast, InvalidSyntax("STAT", line))
    ELSE Returned([ast EXCEPT !.stats = DictSet(@, match.g1, match.g2)])

_parse_microtraining(ast, line) ==
    LET match == MatchKeyed("MICROTRAINING", line) IN
    IF ~match.ok THEN Raised(ast, InvalidSyntax("MICROTRAINING", line))
    ELSE Returned([ast EXCEPT !.microtraining = DictSet(@, match.g1, match.g2)])

_parse_seo(ast, line) ==
    LET match == MatchPrefixed("SEO_", line) IN
    IF ~match.ok THEN Raised(ast, InvalidSyntax("SEO", line))
    ELSE Returned([ast EXCEPT !.seo = DictSet(@, match.g1, match.g2)])

_parse_contact(ast, line) ==
    LET match == MatchPrefixed("CONTACT_", line) IN
    IF ~match.ok THEN Raised(ast, InvalidSyntax("CONTACT", line))
    ELSE Returned([ast EXCEPT !.contact = DictSet(@, match.g1, match.g2)])

\* SK_TAG\s*:\s*"([^"]+)"
_parse_sk_tag(ast, line) ==
    LET match == MatchColonQuoted(line, Len("SK_TAG") + 1) IN
    IF ~(startswith(line, "SK_TAG") /\ match.ok)
    THEN Raised(ast, InvalidSyntax("SK_TAG", line))
    ELSE Returned([ast EXCEPT !.sk_tags = Append(@, match.g2)])

\* _parse_goal, were a goal whose name is already declared dropped.
_parse_goal_DropsDuplicate(ast, line) ==
    LET match == MatchKeyed("GOAL", line) IN
    IF ~match.ok THEN Raised(ast, InvalidSyntax("GOAL", line))
    ELSE IF \E n \in 1..Len(ast.goals) : ast.goals[n].name = match.g1
    THEN Returned(ast)
    ELSE Returned([ast EXCEPT !.goals = Append(@, GoalNode(match.g1, match.g2))])

_parse_goal(ast, line) ==
    LET match == MatchKeyed("GOAL", line) IN
    IF ~match.ok THEN Raised(ast, InvalidSyntax("GOAL", line))
    ELSE Returned([ast EXCEPT !.goals = Append(@, GoalNode(match.g1, match.g2))])

\* float() raises ValueError on a [\d.]+ text that is no float literal.
_parse_metric(ast, line) ==
    LET match == MatchMetric(line)
        value == float(match.g2)
    IN  IF ~match.ok THEN Raised(ast, InvalidSyntax("METRIC", line))
        ELSE IF ~value.ok
        THEN Raised(ast, Exc("ValueError", "could not convert string to float: ",
                             <<>>, match.g2, <<>>))
        ELSE Returned([ast EXCEPT
                          !.metrics = Append(@, MetricNode(match.g1, value.value))])

_parse_rmetric(ast, line) ==
    LET match == MatchKeyed("RMetric", line) IN
    IF ~match.ok THEN Raised(ast, InvalidSyntax("RMetric", line))
    ELSE Returned([ast EXCEPT
                      !.rmetrics = Append(@, RMetricNode(match.g1, match.g2))])

_parse_trigger(ast, line) ==
    LET match == MatchTrigger(line) IN
    IF ~match.ok THEN Raised(ast, InvalidSyntax("WHEN/THEN", line))
    ELSE Returned([ast EXCEPT
             !.triggers = Append(@, TriggerNode(strip(match.g1), strip(match.g2)))])

_parse_variant(ast, line) ==
    LET match == MatchKeyed("VARIANT", line) IN
    IF ~match.ok THEN Raised(ast, InvalidSyntax("VARIANT", line))
    ELSE Returned([ast EXCEPT
                      !.variants = Append(@, VariantNode(match.g1, match.g2))])

valid_outputs == <<"SMS_CAMPAIGN", "AGENT", "RMetrics", "vROI", "MintSite", "SK_SKILL">>

InSeq(x, seq) == \E i \in 1..Len(seq) : seq[i] = x

\* _parse_output, were the kind not tested against valid_outputs.
_parse_output_AnyKind(ast, line) ==
    LET match == MatchOutput(line) IN
    IF ~match.ok THEN Raised(ast, InvalidSyntax("OUTPUT", line))
    ELSE Returned([ast EXCEPT !.output = Some(match.g1)])

\* _parse_output, were an OutputIntent already set kept (as the primary
\* persona is).
_parse_output_FirstWins(ast, line) ==
    LET match == MatchOutput(line)
        output_type == match.g1
    IN  IF ~match.ok THEN Raised(ast, InvalidSyntax("OUTPUT", line))
        ELSE IF ~InSeq(output_type, valid_outputs)
        THEN Raised(ast, Exc("SyntaxError", "Invalid OUTPUT type. Must be one of: ",
                             <<>>, output_type, valid_outputs))
        ELSE Returned([ast EXCEPT
                          !.output = IF @ = None THEN Some(output_type) ELSE @])

_parse_output(ast, line) ==
    LET match == MatchOutput(line)
        output_type == match.g1
    IN  IF ~match.ok THEN Raised(ast, InvalidSyntax("OUTPUT", line))
        ELSE IF ~InSeq(output_type, valid_outputs)
        THEN Raised(ast, Exc("SyntaxError", "Invalid OUTPUT type. Must be one of: ",
                             <<>>, output_type, valid_outputs))
        ELSE Returned([ast EXCEPT !.output = Some(output_type)])

(***************************************************************************)
(* ROIDSLParser objects.  pc is where the object's parse() stands:         *)
(* "new" (constructed, parse() not called), "parsing" (in the loop),       *)
(* "returned" (parse() returned self.ast), "raised" (parse() raised exc).  *)
(***************************************************************************)
__init__(text) ==
    [text |-> text,
     lines |-> StripNonBlank(split(text)),
     current_line |-> 0,
     ast |-> ROIDSLAST,
     pc |-> "new",
     exc |-> NoExc,
     calls |-> 0]

\* self.lines[self.current_line] (current_line is 0-based).
CurLine(p) ==
    IF p.current_line < Len(p.lines) THEN p.lines[p.current_line + 1] ELSE ""

\* A comment test that knows the # marker only.
IsComment_HashOnly(line) == startswith(line, "#")

IsComment(line) == startswith(line, "#") \/ startswith(line, "//")

\* The if/elif chain of parse(): the branch a non-comment line takes.
Dispatch(line) ==
    IF startswith(line, "PERSONA") THEN "PERSONA"
    ELSE IF startswith(line, "GOAL") THEN "GOAL"
    ELSE IF startswith(line, "METRIC") /\ ~startswith(line, "RMetric") THEN "METRIC"
    ELSE IF startswith(line, "RMetric") THEN "RMetric"
    ELSE IF startswith(line, "WHEN") THEN "WHEN"
    ELSE IF startswith(line, "VARIANT") THEN "VARIANT"
    ELSE IF startswith(line, "CREDENTIAL") THEN "CREDENTIAL"
    ELSE IF startswith(line, "CASE_STUDY") THEN "CASE_STUDY"
    ELSE IF startswith(line, "SERVICE") THEN "SERVICE"
    ELSE IF startswith(line, "TRAINING") THEN "TRAINING"
    ELSE IF startswith(line, "VROI_INPUT") THEN "VROI_INPUT"
    ELSE IF startswith(line, "VROI_OUTPUT") THEN "VROI_OUTPUT"
    ELSE IF startswith(line, "STAT") THEN "STAT"
    ELSE IF startswith(line, "MICROTRAINING") THEN "MICROTRAINING"
    ELSE IF startswith(line, "SEO_") THEN "SEO_"
    ELSE IF startswith(line, "CONTACT_") THEN "CONTACT_"
    ELSE IF startswith(line, "SK_TAG") THEN "SK_TAG"
    ELSE IF startswith(line, "OUTPUT") THEN "OUTPUT"
    ELSE "else"

Finished(p) == p.pc \in {"returned", "raised"}

\* The program is single-threaded: a parser runs when those before it are done.
Turn(i) == \A j \in DOMAIN parsers : j < i => Finished(parsers[j])

\* In the loop of parse(), at a line that is no comment.
AtLine(i, branch) ==
    /\ Turn(i)
    /\ parsers[i].pc = "parsing"
    /\ parsers[i].current_line < Len(parsers[i].lines)
    /\ ~IsComment(CurLine(parsers[i]))
    /\ Dispatch(CurLine(parsers[i])) = branch

\* Handle, were a line its handler rejects skipped instead of ending parse().
Handle_SkipsBadLine(i, result) ==
    /\ parsers' = [parsers EXCEPT ![i] =
           [@ EXCEPT !.ast = result.ast, !.exc = result.exc, !.current_line = @ + 1]]
    /\ UNCHANGED <<validators, cli>>

\* One iteration of the loop through a handler: the handler's AST is kept
\* (self.ast is updated in place) and either the exception leaves parse()
\* with current_line where it is, or current_line moves on.
Handle(i, result) ==
    /\ parsers' = [parsers EXCEPT ![i] =
           IF result.raised
           THEN [@ EXCEPT !.ast = result.ast, !.pc = "raised", !.exc = result.exc]
           ELSE [@ EXCEPT !.ast = result.ast, !.current_line = @ + 1]]
    /\ UNCHANGED <<validators, cli>>

\* parse() is called.
parse(i) ==
    /\ Turn(i)
    /\ cli.command = "none" \/ cli.pc = "parse"
    /\ parsers[i].pc = "new"
    /\ parsers' = [parsers EXCEPT ![i].pc = "parsing", ![i].calls = 1]
    /\ UNCHANGED <<validators, cli>>

\* No other parser is inside parse().
Idle(i) == \A j \in DOMAIN parsers \ {i} : parsers[j].pc # "parsing"

\* A second call that starts over from the first line.
parse_again_Rewinds(i) ==
    /\ Turn(i) /\ Idle(i)
    /\ Finished(parsers[i])
    /\ parsers[i].calls < MaxParseCalls
    /\ parsers' = [parsers EXCEPT ![i].pc = "parsing", ![i].calls = @ + 1,
                                  ![i].current_line = 0]
    /\ UNCHANGED <<validators, cli>>

\* parse() is called on a parser whose earlier call has returned or raised:
\* the loop starts from the fields as that call left them.
parse_again(i) ==
    /\ Turn(i) /\ Idle(i)
    /\ Finished(parsers[i])
    /\ parsers[i].calls < MaxParseCalls
    /\ parsers' = [parsers EXCEPT ![i].pc = "parsing", ![i].calls = @ + 1]
    /\ UNCHANGED <<validators, cli>>

SkipComment(i) ==
    /\ Turn(i)
    /\ parsers[i].pc = "parsing"
    /\ parsers[i].current_line < Len(parsers[i].lines)
    /\ IsComment(CurLine(parsers[i]))
    /\ parsers' = [parsers EXCEPT ![i].current_line = @ + 1]
    /\ UNCHANGED <<validators, cli>>

ParsePersona(i) ==
    AtLine(i, "PERSONA") /\ Handle(i, _parse_persona(parsers[i].ast, CurLine(parsers[i])))
ParseGoal(i) ==
    AtLine(i, "GOAL") /\ Handle(i, _parse_goal(parsers[i].ast, CurLine(parsers[i])))
ParseMetric(i) ==
    AtLine(i, "METRIC") /\ Handle(i, _parse_metric(parsers[i].ast, CurLine(parsers[i])))
ParseRMetric(i) ==
    AtLine(i, "RMetric") /\ Handle(i, _parse_rmetric(parsers[i].ast, CurLine(parsers[i])))
ParseTrigger(i) ==
    AtLine(i, "WHEN") /\ Handle(i, _parse_trigger(parsers[i].ast, CurLine(parsers[i])))
ParseVariant(i) ==
    AtLine(i, "VARIANT") /\ Handle(i, _parse_variant(parsers[i].ast, CurLine(parsers[i])))
ParseCredential(i) ==
    AtLine(i, "CREDENTIAL") /\ Handle(i, _parse_credential(parsers[i].ast, CurLine(parsers[i])))
ParseCaseStudy(i) ==
    AtLine(i, "CASE_STUDY") /\ Handle(i, _parse_case_study(parsers[i].ast, CurLine(parsers[i])))
ParseService(i) ==
    AtLine(i, "SERVICE") /\ Handle(i, _parse_service(parsers[i].ast, CurLine(parsers[i])))
ParseTraining(i) ==
    AtLine(i, "TRAINING") /\ Handle(i, _parse_training(parsers[i].ast, CurLine(parsers[i])))
ParseVroiInput(i) ==
    AtLine(i, "VROI_INPUT") /\ Handle(i, _parse_vroi_input(parsers[i].ast, CurLine(parsers[i])))
ParseVroiOutput(i) ==
    AtLine(i, "VROI_OUTPUT") /\ Handle(i, _parse_vroi_output(parsers[i].ast, CurLine(parsers[i])))
ParseStat(i) ==
    AtLine(i, "STAT") /\ Handle(i, _parse_stat(parsers[i].ast, CurLine(parsers[i])))
ParseMicrotraining(i) ==
    AtLine(i, "MICROTRAINING") /\ Handle(i, _parse_microtraining(parsers[i].ast, CurLine(parsers[i])))
ParseSeo(i) ==
    AtLine(i, "SEO_") /\ Handle(i, _parse_seo(parsers[i].ast, CurLine(parsers[i])))
ParseContact(i) ==
    AtLine(i, "CONTACT_") /\ Handle(i, _parse_contact(parsers[i].ast, CurLine(parsers[i])))
ParseSkTag(i) ==
    AtLine(i, "SK_TAG") /\ Handle(i, _parse_sk_tag(parsers[i].ast, CurLine(parsers[i])))
ParseOutput(i) ==
    AtLine(i, "OUTPUT") /\ Handle(i, _parse_output(parsers[i].ast, CurLine(parsers[i])))

\* raise SyntaxError(f"Unknown syntax at line {self.current_line + 1}: {line}")
UnknownSyntax(p) ==
    Exc("SyntaxError", "Unknown syntax at line : ", <<p.current_line + 1>>,
        CurLine(p), <<>>)

ParseUnknown(i) ==
    AtLine(i, "else") /\ Handle(i, Raised(parsers[i].ast, UnknownSyntax(parsers[i])))

\* The loop ends: return self.ast.
ParseReturn(i) ==
    /\ Turn(i)
    /\ parsers[i].pc = "parsing"
    /\ parsers[i].current_line >= Len(parsers[i].lines)
    /\ parsers' = [parsers EXCEPT ![i].pc = "returned"]
    /\ UNCHANGED <<validators, cli>>

(***************************************************************************)
(* The validator of compiler/validator.py.  A validator is a record of     *)
(* its fields (ast, errors, warnings) and of where its caller is (pc);     *)
(* each check is a function from self to self, and the messages are the    *)
(* strings the f-strings build.                                            *)
(***************************************************************************)
\* The characters str.isupper() and the regex class [A-Z] accept.
Upper ==
    {"A", "B", "C", "D", "E", "F", "G", "H", "I", "J", "K", "L", "M",
     "N", "O", "P", "Q", "R", "S", "T", "U", "V", "W", "X", "Y", "Z"}

\* ROIValidator.__init__(ast).
ROIValidator(ast) ==
    [ast |-> ast, errors |-> <<>>, warnings |-> <<>>, pc |-> "new",
     exc |-> NoExc, results |-> <<>>]

\* self.errors.append(msg) and self.warnings.append(msg).
error(self, msg) == [self EXCEPT !.errors = Append(@, msg)]
warning(self, msg) == [self EXCEPT !.warnings = Append(@, msg)]

\* An exception leaves a check: name[0] of an empty name is an IndexError.
raise(self, type) == [self EXCEPT !.exc = Exc(type, "", <<>>, "", <<>>)]

\* sub in s.
Contains(s, sub) == Find(s, sub, 1) # 0

\* {x.name for x in nodes}.
Names(nodes) == {nodes[n].name : n \in 1..Len(nodes)}

\* A mandatory-field check that takes an absent persona for an error.
_validate_mandatory_fields_PersonaRequired(self) ==
    LET s1 == IF Len(self.ast.goals) = 0
              THEN error(self, "At least 1 GOAL is required") ELSE self
        s2 == IF Len(s1.ast.metrics) = 0
              THEN error(s1, "At least 1 METRIC is required") ELSE s1
        s3 == IF s2.ast.output = None \/ s2.ast.output = Some("")
              THEN error(s2, "OUTPUT declaration is required") ELSE s2
    IN  IF s3.ast.persona = None
        THEN error(s3, "PERSONA is recommended but not mandatory") ELSE s3

_validate_mandatory_fields(self) ==
    LET s1 == IF Len(self.ast.goals) = 0
              THEN error(self, "At least 1 GOAL is required") ELSE self
        s2 == IF Len(s1.ast.metrics) = 0
              THEN error(s1, "At least 1 METRIC is required") ELSE s1
        s3 == IF s2.ast.output = None \/ s2.ast.output = Some("")
              THEN error(s2, "OUTPUT declaration is required") ELSE s2
    IN  IF s3.ast.persona = None
        THEN warning(s3, "PERSONA is recommended but not mandatory") ELSE s3

\* A persona check that reads the value of an absent persona.
_validate_persona_Unguarded(self) ==
    IF self.ast.persona = None THEN raise(self, "AttributeError")
    ELSE IF Len(self.ast.persona[1].value) < 3
    THEN warning(self, "PERSONA value is very short - consider more detail")
    ELSE self

_validate_persona(self) ==
    IF self.ast.persona = None THEN self
    ELSE LET value == self.ast.persona[1].value
             s1 == IF value = ""
                   THEN error(self, "PERSONA value cannot be empty") ELSE self
         IN  IF Len(value) < 3
             THEN warning(s1, "PERSONA value is very short - consider more detail")
             ELSE s1

\* The body of the loop of _validate_goals, from the n-th goal on.
RECURSIVE _validate_goals_from(_, _, _)
_validate_goals_from(self, n, goal_names) ==
    IF n > Len(self.ast.goals) THEN self
    ELSE LET goal == self.ast.goals[n]
             s1 == IF goal.name \in goal_names
                   THEN error(self, "Duplicate GOAL name: " \o goal.name) ELSE self
             s2 == IF Ch(goal.name, 1) \notin Upper
                   THEN warning(s1, "GOAL name '" \o goal.name
                                    \o "' should start with uppercase (PascalCase)")
                   ELSE s1
             s3 == IF goal.value = ""
                   THEN error(s2, "GOAL " \o goal.name \o " has empty value") ELSE s2
             s4 == IF ~\E char \in {"$", "%", "M", "K"} : Contains(goal.value, char)
                   THEN warning(s3, "GOAL " \o goal.name
                                    \o " lacks quantifiable metric - consider adding dollar/percentage value")
                   ELSE s3
         IN  IF goal.name = "" THEN raise(s1, "IndexError")
             ELSE _validate_goals_from(s4, n + 1, goal_names \cup {goal.name})

_validate_goals(self) == _validate_goals_from(self, 1, {})

\* 10^n.
RECURSIVE Pow10(_)
Pow10(n) == IF n = 0 THEN 1 ELSE 10 * Pow10(n - 1)

\* The n decimal digits of a natural number below 10^n.
RECURSIVE Digits(_, _)
Digits(x, n) == IF n = 0 THEN "" ELSE Digits(x \div 10, n - 1) \o ToString(x % 10)

\* str(value) of a float, in the positional notation str() uses between
\* 1e-4 and 1e16.
str_float(value) ==
    LET abs == IF value.num < 0 THEN 0 - value.num ELSE value.num IN
    (IF value.num < 0 THEN "-" ELSE "")
        \o ToString(abs \div Pow10(value.scale)) \o "."
        \o (IF value.scale = 0 THEN "0"
            ELSE Digits(abs % Pow10(value.scale), value.scale))

\* The body of the loop of _validate_metrics, from the n-th metric on.
RECURSIVE _validate_metrics_from(_, _, _)
_validate_metrics_from(self, n, metric_names) ==
    IF n > Len(self.ast.metrics) THEN self
    ELSE LET metric == self.ast.metrics[n]
             s1 == IF metric.name \in metric_names
                   THEN error(self, "Duplicate METRIC name: " \o metric.name) ELSE self
             s2 == IF Ch(metric.name, 1) \notin Upper
                   THEN warning(s1, "METRIC name '" \o metric.name
                                    \o "' should start with uppercase (PascalCase)")
                   ELSE s1
             s3 == IF metric.value.num < 0
                   THEN warning(s2, "METRIC " \o metric.name \o " has negative value: "
                                    \o str_float(metric.value))
                   ELSE s2
             s4 == IF metric.value.num > Pow10(metric.value.scale)
                      /\ Contains(metric.name, "Risk")
                   THEN warning(s3, "METRIC " \o metric.name
                                    \o " appears to be a risk/drift metric but value > 1.0")
                   ELSE s3
         IN  IF metric.name = "" THEN raise(s1, "IndexError")
             ELSE _validate_metrics_from(s4, n + 1, metric_names \cup {metric.name})

\* A duplicate check whose names are shared with the goals.
_validate_metrics_CrossClass(self) ==
    _validate_metrics_from(self, 1, Names(self.ast.goals))

_validate_metrics(self) == _validate_metrics_from(self, 1, {})

\* re.findall(r'\b[A-Z]\w+\b', s) from position i on: the maximal runs of
\* word characters that begin with a capital and have two characters or
\* more, in order of occurrence.
RECURSIVE findall_capitalized(_, _)
findall_capitalized(s, i) ==
    IF i > Len(s) THEN <<>>
    ELSE LET e == SkipIn(s, i, WordChar) IN
         IF e = i THEN findall_capitalized(s, i + 1)
         ELSE (IF Ch(s, i) \in Upper /\ e - i >= 2
               THEN <<SubSeq(s, i, e - 1)>> ELSE <<>>)
              \o findall_capitalized(s, e)

\* for token in expr_tokens, of _validate_rmetrics, from the t-th token on.
RECURSIVE _validate_rmetrics_tokens(_, _, _, _, _)
_validate_rmetrics_tokens(self, rmetric, expr_tokens, t, known) ==
    IF t > Len(expr_tokens) THEN self
    ELSE _validate_rmetrics_tokens(
             IF expr_tokens[t] \notin known
             THEN error(self, "RMetric " \o rmetric.name
                              \o " references undefined METRIC: " \o expr_tokens[t])
             ELSE self,
             rmetric, expr_tokens, t + 1, known)

\* The body of the loop of _validate_rmetrics, from the n-th rmetric on.
RECURSIVE _validate_rmetrics_from(_, _, _)
_validate_rmetrics_from(self, n, rmetric_names) ==
    IF n > Len(self.ast.rmetrics) THEN self
    ELSE LET rmetric == self.ast.rmetrics[n]
             metric_names == Names(self.ast.metrics)
             s1 == IF rmetric.name \in rmetric_names
                   THEN error(self, "Duplicate RMetric name: " \o rmetric.name) ELSE self
             names == rmetric_names \cup {rmetric.name}
             s2 == IF Ch(rmetric.name, 1) \notin Upper
                   THEN warning(s1, "RMetric name '" \o rmetric.name
                                    \o "' should start with uppercase (PascalCase)")
                   ELSE s1
             s3 == _validate_rmetrics_tokens(s2, rmetric,
                       findall_capitalized(rmetric.expr, 1), 1,
                       metric_names \cup names)
             s4 == IF Contains(rmetric.expr, rmetric.name)
                   THEN error(s3, "RMetric " \o rmetric.name
                                  \o " contains circular reference to itself")
                   ELSE s3
         IN  IF rmetric.name = "" THEN raise(s1, "IndexError")
             ELSE _validate_rmetrics_from(s4, n + 1, names)

_validate_rmetrics(self) == _validate_rmetrics_from(self, 1, {})

\* The regex class [><=!].
ComparatorChar == {">", "<", "=", "!"}

\* re.match(r'(\w+)\s*([><=!]+)\s*([\d.]+)', condition)
MatchCondition(condition) ==
    LET a == SkipIn(condition, 1, WordChar)
        b == SkipIn(condition, a, Whitespace)
        c == SkipIn(condition, b, ComparatorChar)
        d == SkipIn(condition, c, Whitespace)
        e == SkipIn(condition, d, DigitOrDot)
    IN  IF a > 1 /\ c > b /\ e > d
        THEN [ok |-> TRUE, g1 |-> SubSeq(condition, 1, a - 1),
              g2 |-> SubSeq(condition, b, c - 1), g3 |-> SubSeq(condition, d, e - 1)]
        ELSE [ok |-> FALSE, g1 |-> "", g2 |-> "", g3 |-> ""]

\* re.match(r'(\w+)\(["\']?\w+["\']?\)', action) is not None
MatchAction(action) ==
    LET a == SkipIn(action, 1, WordChar)
        b == IF Ch(action, a + 1) \in {QUOTE, "'"} THEN a + 2 ELSE a + 1
        c == SkipIn(action, b, WordChar)
        d == IF Ch(action, c) \in {QUOTE, "'"} THEN c + 1 ELSE c
    IN  a > 1 /\ Ch(action, a) = "(" /\ c > b /\ Ch(action, d) = ")"

valid_comparators == <<">", "<", ">=", "<=", "==", "!=">>

\* The body of the loop of _validate_triggers, from the n-th trigger on.
RECURSIVE _validate_triggers_from(_, _)
_validate_triggers_from(self, n) ==
    IF n > Len(self.ast.triggers) THEN self
    ELSE LET trigger == self.ast.triggers[n]
             metric_names == Names(self.ast.metrics)
             condition_match == MatchCondition(trigger.condition)
             metric_name == condition_match.g1
             comparator == condition_match.g2
             s1 == IF metric_name \notin metric_names
                   THEN error(self, "Trigger references undefined METRIC: " \o metric_name)
                   ELSE self
             s2 == IF ~InSeq(comparator, valid_comparators)
                   THEN error(s1, "Invalid comparator '" \o comparator \o "' in trigger")
                   ELSE s1
             s3 == IF ~MatchAction(trigger.action)
                   THEN warning(s2, "Action '" \o trigger.action
                                    \o "' may have invalid syntax")
                   ELSE s2
         IN  IF ~condition_match.ok
             THEN _validate_triggers_from(
                      error(self, "Invalid trigger condition syntax: "
                                  \o trigger.condition), n + 1)
             ELSE _validate_triggers_from(s3, n + 1)

_validate_triggers(self) == _validate_triggers_from(self, 1)

RECURSIVE _validate_variants_from(_, _)
_validate_variants_from(self, n) ==
    IF n > Len(self.ast.variants) THEN self
    ELSE _validate_variants_from(
             IF self.ast.variants[n].value = ""
             THEN error(self, "VARIANT " \o self.ast.variants[n].type
                              \o " has empty value")
             ELSE self, n + 1)

_validate_variants(self) == _validate_variants_from(self, 1)

\* An output check that fills in an absent OutputIntent.
_validate_output_SetsDefault(self) ==
    IF self.ast.output = None THEN [self EXCEPT !.ast.output = Some("MintSite")]
    ELSE self

_validate_output(self) ==
    IF self.ast.output = None \/ self.ast.output = Some("") THEN self
    ELSE LET output == self.ast.output[1]
             s1 == IF ~InSeq(output, valid_outputs)
                   THEN error(self, "Invalid OUTPUT type: " \o output) ELSE self
             s2 == IF output = "MintSite" /\ s1.ast.persona = None
                   THEN warning(s1, "MintSite output works best with PERSONA defined")
                   ELSE s1
             s3 == IF output = "MintSite" /\ Len(s2.ast.variants) = 0
                   THEN warning(s2, "MintSite output can use VARIANTs for page variants")
                   ELSE s2
             s4 == IF output = "SMS_CAMPAIGN" /\ Len(s3.ast.goals) = 0
                   THEN warning(s3, "SMS_CAMPAIGN output needs GOALs for message content")
                   ELSE s3
         IN  IF output = "AGENT" /\ Len(s4.ast.triggers) = 0
             THEN warning(s4, "AGENT output can use triggers for automation logic")
             ELSE s4

\* for token in tokens, of _validate_identifier_references.
RECURSIVE _validate_identifier_references_tokens(_, _, _, _)
_validate_identifier_references_tokens(self, rmetric, tokens, t) ==
    IF t > Len(tokens) THEN self
    ELSE _validate_identifier_references_tokens(
             IF tokens[t] \notin Names(self.ast.metrics)
                /\ ~InSeq(tokens[t], <<"AND", "OR", "NOT", "IF">>)
             THEN warning(self, "RMetric " \o rmetric.name \o " references '"
                                \o tokens[t] \o "' which is not a declared METRIC")
             ELSE self,
             rmetric, tokens, t + 1)

RECURSIVE _validate_identifier_references_from(_, _)
_validate_identifier_references_from(self, n) ==
    IF n > Len(self.ast.rmetrics) THEN self
    ELSE _validate_identifier_references_from(
             _validate_identifier_references_tokens(self, self.ast.rmetrics[n],
                 findall_capitalized(self.ast.rmetrics[n].expr, 1), 1),
             n + 1)

\* A sweep that reports what it finds as errors.
_validate_identifier_references_Escalates(self) ==
    LET swept == _validate_identifier_references_from(self, 1) IN
    [self EXCEPT !.errors = @ \o SubSeq(swept.warnings, Len(self.warnings) + 1,
                                        Len(swept.warnings))]

_validate_identifier_references(self) == _validate_identifier_references_from(self, 1)

\* A statement of validate() runs unless one before it has raised.
Then(self, Check(_)) == IF self.exc # NoExc THEN self ELSE Check(self)

\* The nine checks of validate(), in its order.
RunChecks(self) ==
    LET s1 == _validate_mandatory_fields(self)
        s2 == Then(s1, _validate_persona)
        s3 == Then(s2, _validate_goals)
        s4 == Then(s3, _validate_metrics)
        s5 == Then(s4, _validate_rmetrics)
        s6 == Then(s5, _validate_triggers)
        s7 == Then(s6, _validate_variants)
        s8 == Then(s7, _validate_output)
    IN  Then(s8, _validate_identifier_references)

\* return {'errors': self.errors, 'warnings': self.warnings}, as the caller
\* reads it when validate() returns.
Result(self) == [errors |-> self.errors, warnings |-> self.warnings]

is_valid(self) == Len(self.errors) = 0

\* ROIValidator(ast) is constructed on the AST parse() returned: the i-th
\* validator is the one of the i-th parser.
Construct(i) ==
    /\ cli.command = "none" \/ cli.pc = "validate"
    /\ parsers[i].pc = "returned"
    /\ Len(validators) = i - 1
    /\ validators' = Append(validators, ROIValidator(parsers[i].ast))
    /\ UNCHANGED <<parsers, cli>>

\* validate() is called, for the first time or again, and returns
\* self.errors and self.warnings or raises; results keeps what each call
\* returned, as read at its return.
validate(v) ==
    /\ cli.command = "none" \/ (cli.pc = "validate" /\ validators[v].pc = "new")
    /\ validators[v].pc \in {"new", "returned"}
    /\ Len(validators[v].results) < MaxValidateCalls
    /\ validators' = [validators EXCEPT ![v] =
           LET self == RunChecks(@) IN
           IF self.exc # NoExc THEN [self EXCEPT !.pc = "raised"]
           ELSE [self EXCEPT !.pc = "returned",
                             !.results = Append(@, Result(self))]]
    /\ UNCHANGED <<parsers, cli>>

(***************************************************************************)
(* Source texts: raw lines joined by '\n'.                                 *)
(***************************************************************************)
\* Raw lines of the texts of Spec: blank and comment lines, a line of no
\* directive, and for the directives well-formed and malformed lines.
LinePool ==
    {"", " \t", "# note", "// note",
     "FOO Bar: \"baz\"",
     "PERSONA Sponsor: \"Director\"",
     " PERSONA Buyer : \"VP\"",
     "PERSONA Sponsor: Director",
     "GOAL Cost: \"Avoid $2M\"",
     "GOAL delay_Cost : \"Cut 5%\"",
     "\tGOAL Cost \"x\"",
     "GOAL Cost: \"a\"b\"",
     "METRIC Risk: 0.7",
     "METRIC Risk: 0.70",
     "METRIC Risk: 1.2.3",
     "METRIC Risk: -0.5",
     "METRIC Drift: 3",
     "RMetric Health: \"Risk * 1.2\"",
     "WHEN Risk > 0.5 THEN escalate(\"vendor\")",
     "VARIANT Hero: \"CRO\"",
     "VARIANT Hero: \"\"",
     "GOAL Cost: \"\"",
     "CREDENTIAL Sites: \"536+\"",
     "CASE_STUDY Asubio: \"COPD\"",
     "SERVICE Rescue: \"Turnaround\"",
     "TRAINING Risk: \"Monitoring\"",
     "VROI_INPUT Phase: \"I / II\"",
     "VROI_OUTPUT Delay: \"Cost\"",
     "STAT Sites: \"536\"",
     "MICROTRAINING Title: \"See\"",
     "SEO_TITLE: \"Rose\"",
     "CONTACT_NAME: \"Rose\"",
     "SK_TAG: \"expert\"",
     "OUTPUT MintSite",
     "OUTPUT AGENT",
     "OUTPUT Widget",
     "OUTPUT"}

\* Raw lines of the texts of SpecPair.
PairPool ==
    {"", "GOAL Cost: \"a\"", "GOAL Cost \"x\"", "FOO Bar", "METRIC Risk: 1.2.3"}

\* The texts of at most n raw lines drawn from pool.
Texts(pool, n) == {join(raw) : raw \in UNION {[1..k -> pool] : k \in 0..n}}

\* Raw lines of the files of SpecCli: a goal, a metric, an output and a line
\* of no directive.
CliPool ==
    {"GOAL Cost: \"Avoid $2M\"", "METRIC Risk: 0.7", "OUTPUT MintSite", "FOO Bar"}

\* The contents watch_file finds in a modified file.
ChangedTexts == Texts(CliPool, 1)

(***************************************************************************)
(* The command line of roi_compile.py: compile_file, validate_file,        *)
(* preview_file and watch_file.  cli is the call in progress: its          *)
(* arguments, where it is (pc), what it returned, how the interpreter's    *)
(* analyze() ended if it was invoked, and the output types handed to       *)
(* _transpile_output.  The                                                 *)
(* parser and the validator it constructs are parsers[1] and               *)
(* validators[1]; when no command runs (command "none") the parser and the *)
(* validator are called by any caller.  The interpreter and the renderers  *)
(* are taken by their outcome only: each may return or raise.              *)
(***************************************************************************)
NoCli ==
    [command |-> "none", content |-> "", output_types |-> None,
     dry_run |-> FALSE, pc |-> "idle", returned |-> None, analysis |-> "none",
     attempted |-> <<>>, outputs_generated |-> <<>>, recompiles |-> 0]

\* A command is called on a file of the given content.
Command(command, content, output_types, dry_run) ==
    [NoCli EXCEPT !.command = command, !.content = content,
                  !.output_types = output_types, !.dry_run = dry_run,
                  !.pc = "read"]

\* return value, from compile_file, validate_file or preview_file;
\* watch_file goes on to its loop whatever compile_file returned.
Return(c, value) ==
    [c EXCEPT !.returned = Some(value),
              !.pc = IF c.command = "watch" THEN "watching" ELSE "done"]

\* The file is looked up and read: it is missing or unreadable, or its
\* content is handed to a new ROIDSLParser.
ReadFile ==
    /\ cli.pc = "read"
    /\ \E ok \in BOOLEAN :
           IF ok
           THEN /\ parsers' = <<__init__(cli.content)>>
                /\ cli' = [cli EXCEPT !.pc = "parse"]
           ELSE /\ parsers' = <<>>
                /\ cli' = Return(cli, FALSE)
    /\ validators' = <<>>

\* parser.parse() has returned or raised.
ParseDone ==
    /\ cli.pc = "parse"
    /\ Finished(parsers[1])
    /\ cli' = IF parsers[1].pc = "raised" THEN Return(cli, FALSE)
              ELSE [cli EXCEPT !.pc = IF cli.command = "preview"
                                      THEN "analyze" ELSE "validate"]
    /\ UNCHANGED <<parsers, validators>>

\* validator.validate() has returned or raised.
ValidateDone ==
    /\ cli.pc = "validate"
    /\ Len(validators) = 1
    /\ validators[1].pc \in {"returned", "raised"}
    /\ cli' = IF validators[1].pc = "raised" THEN Return(cli, FALSE)
              ELSE IF Len(validators[1].results[1].errors) > 0 THEN Return(cli, FALSE)
              ELSE IF cli.command = "validate" \/ cli.dry_run THEN Return(cli, TRUE)
              ELSE [cli EXCEPT !.pc = "analyze"]
    /\ UNCHANGED <<parsers, validators>>

\* ROIInterpreter(ast).analyze() is invoked; compile_file goes on when it
\* raises, preview_file returns False.
Analyze ==
    /\ cli.pc = "analyze"
    /\ \E ok \in BOOLEAN :
           LET analysis == IF ok THEN "returned" ELSE "raised" IN
           cli' = IF cli.command = "preview"
                  THEN Return([cli EXCEPT !.analysis = analysis], ok)
                  ELSE [cli EXCEPT !.analysis = analysis, !.pc = "transpile"]
    /\ UNCHANGED <<parsers, validators>>

_get_outputs_from_ast(ast) ==
    IF ast.output = Some("SMS_CAMPAIGN") THEN <<"campaigns">>
    ELSE IF ast.output = Some("AGENT") THEN <<"agents">>
    ELSE IF ast.output = Some("RMetrics") THEN <<"rmetrics">>
    ELSE IF ast.output = Some("vROI") THEN <<"vroi">>
    ELSE IF ast.output = Some("MintSite") THEN <<"mintsite", "agents", "campaigns">>
    ELSE IF ast.output = Some("SK_SKILL") THEN <<"skills">>
    ELSE <<"mintsite">>

\* requested_outputs of compile_file.
requested_outputs(c, ast) ==
    IF c.output_types # None THEN c.output_types[1] ELSE _get_outputs_from_ast(ast)

\* What _transpile_output can do for an output type: write the file and
\* return its path, raise (its transpiler or the write fails; the module
\* of 'skills', compiler.transpiler_sk_skill, does not exist), or return
\* None for a type it does not know.
_transpile_output(output_type) ==
    IF output_type = "skills" THEN {"raised"}
    ELSE IF output_type \in {"sdr", "cloudflare", "mintsite", "campaigns",
                             "agents", "rmetrics", "vroi"}
    THEN {"written", "raised"}
    ELSE {"none"}

\* A loop over requested_outputs that a raising renderer ends.
Transpile_StopsAtFailure ==
    /\ cli.pc = "transpile"
    /\ LET requested == requested_outputs(cli, parsers[1].ast)
           k == Len(cli.attempted) + 1
       IN  /\ k <= Len(requested)
           /\ \E result \in _transpile_output(requested[k]) :
                  cli' = IF result = "raised"
                         THEN Return([cli EXCEPT !.attempted = Append(@, requested[k])],
                                     FALSE)
                         ELSE [cli EXCEPT
                                  !.attempted = Append(@, requested[k]),
                                  !.outputs_generated = Append(@, requested[k])]
    /\ UNCHANGED <<parsers, validators>>

\* One turn of the loop over requested_outputs.
Transpile ==
    /\ cli.pc = "transpile"
    /\ LET requested == requested_outputs(cli, parsers[1].ast)
           k == Len(cli.attempted) + 1
       IN  /\ k <= Len(requested)
           /\ \E result \in _transpile_output(requested[k]) :
                  cli' = [cli EXCEPT
                             !.attempted = Append(@, requested[k]),
                             !.outputs_generated =
                                 IF result = "written" THEN Append(@, requested[k])
                                 ELSE @]
    /\ UNCHANGED <<parsers, validators>>

\* The loop is over: the summary is printed and compile_file returns True.
Summary ==
    /\ cli.pc = "transpile"
    /\ Len(cli.attempted) = Len(requested_outputs(cli, parsers[1].ast))
    /\ cli' = Return(cli, TRUE)
    /\ UNCHANGED <<parsers, validators>>

\* watch_file sees the file modified and calls compile_file again.
FileChanged ==
    /\ cli.pc = "watching"
    /\ cli.recompiles < MaxRecompiles
    /\ \E content \in ChangedTexts :
           cli' = [Command("watch", content, None, FALSE)
                       EXCEPT !.recompiles = cli.recompiles + 1]
    /\ UNCHANGED <<parsers, validators>>

\* Ctrl+C ends watch_file, which returns True.
KeyboardInterrupt ==
    /\ cli.pc = "watching"
    /\ cli' = [cli EXCEPT !.returned = Some(TRUE), !.pc = "done"]
    /\ UNCHANGED <<parsers, validators>>


(***************************************************************************)
(* Specifications.                                                         *)
(***************************************************************************)
\* One parser, constructed on a text.
Init ==
    /\ \E text \in Texts(LinePool, MaxLines) : parsers = <<__init__(text)>>
    /\ validators = <<>>
    /\ cli = NoCli

\* Two parsers, each constructed on a text of its own.
InitPair ==
    /\ \E text1, text2 \in Texts(PairPool, MaxPairLines) :
           parsers = <<__init__(text1), __init__(text2)>>
    /\ validators = <<>>
    /\ cli = NoCli

Next ==
    \/ \E i \in DOMAIN parsers : parse(i)
    \/ \E i \in DOMAIN parsers : SkipComment(i)
    \/ \E i \in DOMAIN parsers : ParsePersona(i)
    \/ \E i \in DOMAIN parsers : ParseGoal(i)
    \/ \E i \in DOMAIN parsers : ParseMetric(i)
    \/ \E i \in DOMAIN parsers : ParseRMetric(i)
    \/ \E i \in DOMAIN parsers : ParseTrigger(i)
    \/ \E i \in DOMAIN parsers : ParseVariant(i)
    \/ \E i \in DOMAIN parsers : ParseCredential(i)
    \/ \E i \in DOMAIN parsers : ParseCaseStudy(i)
    \/ \E i \in DOMAIN parsers : ParseService(i)
    \/ \E i \in DOMAIN parsers : ParseTraining(i)
    \/ \E i \in DOMAIN parsers : ParseVroiInput(i)
    \/ \E i \in DOMAIN parsers : ParseVroiOutput(i)
    \/ \E i \in DOMAIN parsers : ParseStat(i)
    \/ \E i \in DOMAIN parsers : ParseMicrotraining(i)
    \/ \E i \in DOMAIN parsers : ParseSeo(i)
    \/ \E i \in DOMAIN parsers : ParseContact(i)
    \/ \E i \in DOMAIN parsers : ParseSkTag(i)
    \/ \E i \in DOMAIN parsers : ParseOutput(i)
    \/ \E i \in DOMAIN parsers : ParseUnknown(i)
    \/ \E i \in DOMAIN parsers : ParseReturn(i)
    \/ \E i \in DOMAIN parsers : Construct(i)
    \/ \E v \in DOMAIN validators : validate(v)

Spec == Init /\ [][Next]_vars

\* The handlers the lines of PairPool reach.
NextPair ==
    \/ \E i \in DOMAIN parsers : parse(i)
    \/ \E i \in DOMAIN parsers : ParseGoal(i)
    \/ \E i \in DOMAIN parsers : ParseMetric(i)
    \/ \E i \in DOMAIN parsers : ParseUnknown(i)
    \/ \E i \in DOMAIN parsers : ParseReturn(i)

SpecPair == InitPair /\ [][NextPair]_vars

\* Two parsers whose callers call parse() again.
NextAgain ==
    \/ \E i \in DOMAIN parsers : parse(i)
    \/ \E i \in DOMAIN parsers : parse_again(i)
    \/ \E i \in DOMAIN parsers : ParseGoal(i)
    \/ \E i \in DOMAIN parsers : ParseMetric(i)
    \/ \E i \in DOMAIN parsers : ParseUnknown(i)
    \/ \E i \in DOMAIN parsers : ParseReturn(i)

SpecAgain == InitPair /\ [][NextAgain]_vars

\* Raw lines of the texts of SpecFacts: for every fact table two lines that
\* declare one key with two texts, and a line of another key.
FactPool ==
    {"CREDENTIAL Sites: \"536+\"", "CREDENTIAL Sites: \"600\"",
     "CREDENTIAL Staff: \"12\"",
     "CASE_STUDY Asubio: \"COPD\"", "CASE_STUDY Asubio: \"IIb\"",
     "SERVICE Rescue: \"Turnaround\"", "SERVICE Rescue: \"Audit\"",
     "TRAINING Risk: \"Monitoring\"", "TRAINING Risk: \"Detection\"",
     "VROI_INPUT Phase: \"I / II\"", "VROI_INPUT Phase: \"III\"",
     "VROI_OUTPUT Delay: \"Cost\"", "VROI_OUTPUT Delay: \"Monthly\"",
     "STAT Sites: \"536\"", "STAT Sites: \"40\"",
     "MICROTRAINING Title: \"See\"", "MICROTRAINING Title: \"Watch\"",
     "SEO_TITLE: \"Rose\"", "SEO_TITLE: \"Maloney\"",
     "CONTACT_NAME: \"Rose\"", "CONTACT_NAME: \"R. M.\""}

\* One parser, constructed on a text of fact-table lines.
InitFacts ==
    /\ \E text \in Texts(FactPool, MaxFactLines) : parsers = <<__init__(text)>>
    /\ validators = <<>>
    /\ cli = NoCli

NextFacts ==
    \/ \E i \in DOMAIN parsers : parse(i)
    \/ \E i \in DOMAIN parsers : ParseCredential(i)
    \/ \E i \in DOMAIN parsers : ParseCaseStudy(i)
    \/ \E i \in DOMAIN parsers : ParseService(i)
    \/ \E i \in DOMAIN parsers : ParseTraining(i)
    \/ \E i \in DOMAIN parsers : ParseVroiInput(i)
    \/ \E i \in DOMAIN parsers : ParseVroiOutput(i)
    \/ \E i \in DOMAIN parsers : ParseStat(i)
    \/ \E i \in DOMAIN parsers : ParseMicrotraining(i)
    \/ \E i \in DOMAIN parsers : ParseSeo(i)
    \/ \E i \in DOMAIN parsers : ParseContact(i)
    \/ \E i \in DOMAIN parsers : ParseReturn(i)

SpecFacts == InitFacts /\ [][NextFacts]_vars

\* Raw lines of the texts of SpecBlank: blank lines, comment lines of both
\* markers, and directive lines, valid and invalid.
BlankPool ==
    {"", " \t", "# note", "  // note", "#", "/ GOAL",
     "GOAL Cost: \"Cut\"", "GOAL Bad", "OUTPUT MintSite"}

\* A raw line that is blank, or whose first non-whitespace characters are a
\* comment marker.
BlankOrComment(raw) ==
    LET b == SkipIn(raw, 1, Whitespace) IN
    \/ b > Len(raw)
    \/ Ch(raw, b) = "#"
    \/ b < Len(raw) /\ SubSeq(raw, b, b + 1) = "//"

\* The raw lines with the blank and the comment lines removed.
RECURSIVE Directives(_)
Directives(raw) ==
    IF Len(raw) = 0 THEN <<>>
    ELSE (IF BlankOrComment(raw[1]) THEN <<>> ELSE <<raw[1]>>) \o Directives(Tail(raw))

\* Two parsers: one constructed on a text, one on the text with its blank and
\* comment lines removed.
InitBlank ==
    /\ \E raw \in UNION {[1..k -> BlankPool] : k \in 0..MaxBlankLines} :
           parsers = <<__init__(join(raw)), __init__(join(Directives(raw)))>>
    /\ validators = <<>>
    /\ cli = NoCli

NextBlank ==
    \/ \E i \in DOMAIN parsers : parse(i)
    \/ \E i \in DOMAIN parsers : SkipComment(i)
    \/ \E i \in DOMAIN parsers : ParseGoal(i)
    \/ \E i \in DOMAIN parsers : ParseOutput(i)
    \/ \E i \in DOMAIN parsers : ParseUnknown(i)
    \/ \E i \in DOMAIN parsers : ParseReturn(i)

SpecBlank == InitBlank /\ [][NextBlank]_vars

\* Raw lines of the texts of SpecMandatory: the three mandatory directives
\* and a persona.
MandatoryPool ==
    {"PERSONA CEO: \"Chief\"", "GOAL Cost: \"Avoid $2M/mo burn\"",
     "METRIC Risk: 0.7", "OUTPUT MintSite", "OUTPUT AGENT"}

\* One parser; its validator is constructed once parse() has returned.
InitMandatory ==
    /\ \E text \in Texts(MandatoryPool, MaxMandatoryLines) : parsers = <<__init__(text)>>
    /\ validators = <<>>
    /\ cli = NoCli

NextMandatory ==
    \/ \E i \in DOMAIN parsers : parse(i)
    \/ \E i \in DOMAIN parsers : ParsePersona(i)
    \/ \E i \in DOMAIN parsers : ParseGoal(i)
    \/ \E i \in DOMAIN parsers : ParseMetric(i)
    \/ \E i \in DOMAIN parsers : ParseOutput(i)
    \/ \E i \in DOMAIN parsers : ParseReturn(i)
    \/ \E i \in DOMAIN parsers : Construct(i)
    \/ \E v \in DOMAIN validators : validate(v)

SpecMandatory == InitMandatory /\ [][NextMandatory]_vars

\* Raw lines of the texts of SpecDuplicates: one name declared by two metric
\* lines, by a goal and by a derived metric, and other names.
DuplicatePool ==
    {"METRIC Risk: 0.7", "METRIC Risk: 0.9", "METRIC Drift: 1",
     "GOAL Risk: \"Cut 5%\"", "GOAL Cost: \"Save $1\"",
     "RMetric Risk: \"Drift * 2\"", "RMetric Health: \"Drift + 1\""}

InitDuplicates ==
    /\ \E text \in Texts(DuplicatePool, MaxDuplicateLines) : parsers = <<__init__(text)>>
    /\ validators = <<>>
    /\ cli = NoCli

NextDuplicates ==
    \/ \E i \in DOMAIN parsers : parse(i)
    \/ \E i \in DOMAIN parsers : ParseGoal(i)
    \/ \E i \in DOMAIN parsers : ParseMetric(i)
    \/ \E i \in DOMAIN parsers : ParseRMetric(i)
    \/ \E i \in DOMAIN parsers : ParseReturn(i)
    \/ \E i \in DOMAIN parsers : Construct(i)
    \/ \E v \in DOMAIN validators : validate(v)

SpecDuplicates == InitDuplicates /\ [][NextDuplicates]_vars

\* Raw lines of the texts of SpecReferences: metrics of a long and of a
\* one-letter name, and derived metrics that refer to a metric, to each
\* other, to names nothing declares (once and twice, long and one-letter)
\* and to a reserved word.
ReferencePool ==
    {"METRIC Risk: 0.7", "METRIC R: 2",
     "RMetric Health: \"Risk * 1.2 + Unknown\"",
     "RMetric Score: \"Risk AND Health\"",
     "RMetric Twice: \"Unknown + Unknown\"",
     "RMetric Q: \"R + X\""}

InitReferences ==
    /\ \E text \in Texts(ReferencePool, MaxReferenceLines) : parsers = <<__init__(text)>>
    /\ validators = <<>>
    /\ cli = NoCli

NextReferences ==
    \/ \E i \in DOMAIN parsers : parse(i)
    \/ \E i \in DOMAIN parsers : ParseMetric(i)
    \/ \E i \in DOMAIN parsers : ParseRMetric(i)
    \/ \E i \in DOMAIN parsers : ParseReturn(i)
    \/ \E i \in DOMAIN parsers : Construct(i)
    \/ \E v \in DOMAIN validators : validate(v)

SpecReferences == InitReferences /\ [][NextReferences]_vars

\* Raw lines of the texts of SpecTriggers: a metric, a derived metric, and
\* triggers whose condition is well-formed, names the derived metric, goes
\* on after the number, has a number of two dots, a comparator outside the
\* six, or no comparator; the action is a call or a bare word.
TriggerPool ==
    {"METRIC Risk: 0.7", "RMetric Health: \"Risk * 2\"",
     "WHEN Risk > 0.5 THEN alert(\"ops\")",
     "WHEN Risk>=1 THEN go",
     "WHEN Health > 1 THEN alert(\"ops\")",
     "WHEN Risk > 0.5 extra THEN alert(\"ops\")",
     "WHEN Risk > 1.2.3 THEN alert(\"ops\")",
     "WHEN Risk => 1 THEN alert(\"ops\")",
     "WHEN Risk above 1 THEN alert(\"ops\")",
     "WHEN Risk above 1 THEN go"}

InitTriggers ==
    /\ \E text \in Texts(TriggerPool, MaxTriggerLines) : parsers = <<__init__(text)>>
    /\ validators = <<>>
    /\ cli = NoCli

NextTriggers ==
    \/ \E i \in DOMAIN parsers : parse(i)
    \/ \E i \in DOMAIN parsers : ParseMetric(i)
    \/ \E i \in DOMAIN parsers : ParseRMetric(i)
    \/ \E i \in DOMAIN parsers : ParseTrigger(i)
    \/ \E i \in DOMAIN parsers : ParseReturn(i)
    \/ \E i \in DOMAIN parsers : Construct(i)
    \/ \E v \in DOMAIN validators : validate(v)

SpecTriggers == InitTriggers /\ [][NextTriggers]_vars

\* The --output choices of SpecCli: none, a renderer, the missing renderer.
OutputTypes == {None, Some(<<"mintsite">>), Some(<<"skills">>)}

\* A command is called on a file: compile (with or without --output and
\* --dry-run), validate, preview or watch.
InitCli ==
    /\ parsers = <<>>
    /\ validators = <<>>
    /\ \E content \in Texts(CliPool, MaxCliLines) :
           \/ \E output_types \in OutputTypes : \E dry_run \in BOOLEAN :
                  cli = Command("compile", content, output_types, dry_run)
           \/ \E command \in {"validate", "preview", "watch"} :
                  cli = Command(command, content, None, FALSE)

NextCli ==
    \/ ReadFile
    \/ \E i \in DOMAIN parsers : parse(i)
    \/ \E i \in DOMAIN parsers : ParseGoal(i)
    \/ \E i \in DOMAIN parsers : ParseMetric(i)
    \/ \E i \in DOMAIN parsers : ParseOutput(i)
    \/ \E i \in DOMAIN parsers : ParseUnknown(i)
    \/ \E i \in DOMAIN parsers : ParseReturn(i)
    \/ ParseDone
    \/ \E i \in DOMAIN parsers : Construct(i)
    \/ \E v \in DOMAIN validators : validate(v)
    \/ ValidateDone
    \/ Analyze
    \/ Transpile
    \/ Summary
    \/ FileChanged
    \/ KeyboardInterrupt

SpecCli == InitCli /\ [][NextCli]_vars

\* A goal, a metric and an output, the fields validate() demands.
CyclePrefix == <<"GOAL Cost: \"Avoid $2M\"", "METRIC Risk: 0.7", "OUTPUT MintSite">>

\* Derived metrics that name one another: by one-letter names, by lowercase
\* names, by capitalized names, and one that names itself.
CyclePool ==
    {"RMetric A: \"B + 1\"", "RMetric B: \"A * 2\"",
     "RMetric alpha: \"beta + 1\"", "RMetric beta: \"alpha * Risk\"",
     "RMetric Health: \"Score + 1\"", "RMetric Score: \"Health * 2\"",
     "RMetric Total: \"Total + Risk\""}

InitCycles ==
    /\ \E raw \in UNION {[1..k -> CyclePool] : k \in 0..MaxCycleLines} :
           parsers = <<__init__(join(CyclePrefix \o raw))>>
    /\ validators = <<>>
    /\ cli = NoCli

NextCycles ==
    \/ \E i \in DOMAIN parsers : parse(i)
    \/ \E i \in DOMAIN parsers : ParseGoal(i)
    \/ \E i \in DOMAIN parsers : ParseMetric(i)
    \/ \E i \in DOMAIN parsers : ParseRMetric(i)
    \/ \E i \in DOMAIN parsers : ParseOutput(i)
    \/ \E i \in DOMAIN parsers : ParseReturn(i)
    \/ \E i \in DOMAIN parsers : Construct(i)
    \/ \E v \in DOMAIN validators : validate(v)

SpecCycles == InitCycles /\ [][NextCycles]_vars

(***************************************************************************)
(* Vocabulary of the properties.                                           *)
(***************************************************************************)
Ids == DOMAIN parsers

\* The raw lines of the source text, as an editor numbers them from 1.
RawLines(p) == split(p.text)

\* The 1-based index, in the raw lines, of the n-th line that is not blank.
RECURSIVE OrigIndexFrom(_, _, _)
OrigIndexFrom(raw, n, at) ==
    IF at > Len(raw) THEN 0
    ELSE IF strip(raw[at]) = "" THEN OrigIndexFrom(raw, n, at + 1)
    ELSE IF n = 1 THEN at
    ELSE OrigIndexFrom(raw, n - 1, at + 1)

OrigIndex(raw, n) == OrigIndexFrom(raw, n, 1)

\* The raw index of the line parse() raised on.
FailingIndex(p) == OrigIndex(RawLines(p), p.current_line + 1)

\* What the matching handler does with a line that is no comment.
HandlerResult(ast, line) ==
    LET d == Dispatch(line) IN
    CASE d = "PERSONA" -> _parse_persona(ast, line)
      [] d = "GOAL" -> _parse_goal(ast, line)
      [] d = "METRIC" -> _parse_metric(ast, line)
      [] d = "RMetric" -> _parse_rmetric(ast, line)
      [] d = "WHEN" -> _parse_trigger(ast, line)
      [] d = "VARIANT" -> _parse_variant(ast, line)
      [] d = "CREDENTIAL" -> _parse_credential(ast, line)
      [] d = "CASE_STUDY" -> _parse_case_study(ast, line)
      [] d = "SERVICE" -> _parse_service(ast, line)
      [] d = "TRAINING" -> _parse_training(ast, line)
      [] d = "VROI_INPUT" -> _parse_vroi_input(ast, line)
      [] d = "VROI_OUTPUT" -> _parse_vroi_output(ast, line)
      [] d = "STAT" -> _parse_stat(ast, line)
      [] d = "MICROTRAINING" -> _parse_microtraining(ast, line)
      [] d = "SEO_" -> _parse_seo(ast, line)
      [] d = "CONTACT_" -> _parse_contact(ast, line)
      [] d = "SK_TAG" -> _parse_sk_tag(ast, line)
      [] d = "OUTPUT" -> _parse_output(ast, line)
      [] OTHER -> Raised(ast, NoExc)

\* A stripped, non-blank line that is syntactically invalid: no comment, and
\* of no directive or not of its directive's grammar.
LineInvalid(line) == ~IsComment(line) /\ HandlerResult(ROIDSLAST, line).raised

\* The index in lines of the first invalid line; 0 when every line is valid.
FirstInvalid(lines) ==
    IF \E k \in 1..Len(lines) : LineInvalid(lines[k])
    THEN CHOOSE k \in 1..Len(lines) :
             LineInvalid(lines[k]) /\ \A j \in 1..(k - 1) : ~LineInvalid(lines[j])
    ELSE 0

(***************************************************************************)
(* C1.  Every SyntaxError that parse() raises for a line matching no       *)
(* directive keyword reports the 1-based index of that line in the         *)
(* original source text, blank and comment lines before it counted,        *)
(* together with the offending line text.                                  *)
(***************************************************************************)
C1_UnknownLineReportsSourceIndex ==
    \A i \in Ids :
        LET p == parsers[i] IN
        (p.pc = "raised" /\ Dispatch(CurLine(p)) = "else") =>
            /\ p.exc.type = "SyntaxError"
            /\ p.exc.lineno = <<FailingIndex(p)>>
            /\ p.exc.text = strip(RawLines(p)[FailingIndex(p)])

(***************************************************************************)
(* C2.  A line that starts with a directive keyword but fails the          *)
(* directive's grammar makes parse() fail with a SyntaxError that carries  *)
(* the 1-based source line number and the offending line text.             *)
(***************************************************************************)
C2_GrammarErrorCarriesLineNumber ==
    \A i \in Ids :
        LET p == parsers[i] IN
        (/\ p.pc = "raised"
         /\ Dispatch(CurLine(p)) # "else"
         /\ p.exc.type = "SyntaxError"
         /\ p.exc.listed = <<>>) =>
            /\ p.exc.lineno = <<FailingIndex(p)>>
            /\ p.exc.text = CurLine(p)

(***************************************************************************)
(* C3.  parse() returns an AST or fails with a SyntaxError and with no     *)
(* other kind of failure, and it fails exactly when some non-blank,        *)
(* non-comment line is of no directive or not of its directive's grammar   *)
(* (a METRIC number such as 1.2.3 included).                               *)
(***************************************************************************)
C3_OnlySyntaxErrorExactlyOnInvalidLine ==
    \A i \in Ids :
        LET p == parsers[i] IN
        Finished(p) =>
            /\ p.pc = "raised" => p.exc.type = "SyntaxError"
            /\ p.pc = "raised" <=> FirstInvalid(p.lines) # 0

(***************************************************************************)
(* C4.  Fail-fast: when line k is the first syntactically invalid line of  *)
(* a document, parse() fails at line k, no line after k is processed, and  *)
(* the failure (kind, referenced line, message) is the same for any two    *)
(* documents that agree on lines 1..k, whatever follows line k.            *)
(* Checked under SpecPair, on two parsers given two documents.             *)
(***************************************************************************)
\* Two documents agree on their raw lines 1..k.
AgreeUpTo(raw1, raw2, k) ==
    /\ Len(raw1) >= k
    /\ Len(raw2) >= k
    /\ SubSeq(raw1, 1, k) = SubSeq(raw2, 1, k)

C4_FailFast ==
    /\ \A i \in Ids :
           LET p == parsers[i]
               k == FirstInvalid(p.lines)
           IN  (Finished(p) /\ k # 0) =>
                   /\ p.pc = "raised"
                   /\ p.current_line = k - 1
    /\ \A i, j \in Ids :
           LET p == parsers[i]
               q == parsers[j]
           IN  (/\ Finished(p)
                /\ Finished(q)
                /\ p.pc = "raised"
                /\ AgreeUpTo(RawLines(p), RawLines(q), FailingIndex(p))) =>
                   /\ q.pc = "raised"
                   /\ q.exc = p.exc
                   /\ FailingIndex(q) = FailingIndex(p)
                   /\ q.ast = p.ast

\* Two documents with the same first invalid line and different lines after it,
\* both parsed to the end.
C4_Witness ==
    /\ Len(parsers) = 2
    /\ Finished(parsers[1])
    /\ Finished(parsers[2])
    /\ parsers[1].pc = "raised"
    /\ AgreeUpTo(RawLines(parsers[1]), RawLines(parsers[2]), FailingIndex(parsers[1]))
    /\ Len(RawLines(parsers[1])) > FailingIndex(parsers[1])
    /\ Len(RawLines(parsers[2])) > FailingIndex(parsers[2])
    /\ parsers[1].text # parsers[2].text

(***************************************************************************)
(* C5.  Parsing is all-or-nothing: when parse() fails, the parser exposes  *)
(* no AST holding the entities declared on the lines before the failing    *)
(* line.                                                                   *)
(***************************************************************************)
C5_NoPartialAstAfterFailure ==
    \A i \in Ids : parsers[i].pc = "raised" => parsers[i].ast = ROIDSLAST

(***************************************************************************)
(* C6.  A line METRIC <Id>: <number> is accepted for every floating-point  *)
(* literal with an optional sign and an optional decimal point, and the    *)
(* appended Metric's value equals the literal, negative values included.   *)
(***************************************************************************)
\* [+-]?<digits with at most one point, at least one digit>, and its value.
SignedLiteral(s) ==
    LET signed == Ch(s, 1) \in {"+", "-"}
        body == IF signed THEN SubSeq(s, 2, Len(s)) ELSE s
        wellformed == Len(body) > 0 /\ SkipIn(body, 1, DigitOrDot) = Len(body) + 1
        v == IF wellformed THEN float(body) ELSE float("")
    IN  [ok |-> wellformed /\ v.ok,
         value |-> IF Ch(s, 1) = "-"
                   THEN [num |-> 0 - v.value.num, scale |-> v.value.scale]
                   ELSE v.value]

\* The line is METRIC <Id>: <number> with such a literal, to its end.
SpecMetricLine(line) ==
    LET a == Len("METRIC") + 1
        b == SkipIn(line, a, Whitespace)
        c == SkipIn(line, b, WordChar)
        d == SkipIn(line, c, Whitespace)
        e == SkipIn(line, d + 1, Whitespace)
        lit == SignedLiteral(SubSeq(line, e, Len(line)))
    IN  [ok |-> /\ startswith(line, "METRIC")
                /\ b > a
                /\ c > b
                /\ Ch(line, d) = ":"
                /\ lit.ok,
         name |-> SubSeq(line, b, c - 1),
         value |-> lit.value]

C6_SignedMetricAccepted ==
    \A i \in Ids :
        LET p == parsers[i] IN
        /\ p.pc = "raised" => ~SpecMetricLine(CurLine(p)).ok
        /\ \A j \in 1..p.current_line :
               LET m == SpecMetricLine(p.lines[j])
                   r == Cardinality({k \in 1..j : Dispatch(p.lines[k]) = "METRIC"})
               IN  m.ok =>
                       /\ r <= Len(p.ast.metrics)
                       /\ p.ast.metrics[r] = MetricNode(m.name, m.value)

(***************************************************************************)
(* C7.  A quoted value may not contain an embedded double quote: a line of *)
(* a quoted-value directive with a further double quote between the        *)
(* opening and the final closing quote is rejected with SyntaxError, and   *)
(* no value stored in a returned AST contains a double quote.              *)
(***************************************************************************)
QuotedDirectives ==
    {"PERSONA", "GOAL", "RMetric", "VARIANT", "CREDENTIAL", "CASE_STUDY",
     "SERVICE", "TRAINING", "VROI_INPUT", "VROI_OUTPUT", "STAT",
     "MICROTRAINING", "SEO_", "CONTACT_", "SK_TAG"}

RECURSIVE CountQuotes(_)
CountQuotes(s) ==
    IF Len(s) = 0 THEN 0
    ELSE (IF Ch(s, 1) = QUOTE THEN 1 ELSE 0) + CountQuotes(SubSeq(s, 2, Len(s)))

\* A quote lies between the first and the last quote of the line.
HasEmbeddedQuote(line) ==
    /\ ~IsComment(line)
    /\ Dispatch(line) \in QuotedDirectives
    /\ CountQuotes(line) >= 3

\* The values the quoted-value directives stored in an AST.
QuotedValues(ast) ==
    {ast.personas[n].value : n \in 1..Len(ast.personas)} \cup
    {ast.goals[n].value : n \in 1..Len(ast.goals)} \cup
    {ast.rmetrics[n].expr : n \in 1..Len(ast.rmetrics)} \cup
    {ast.variants[n].value : n \in 1..Len(ast.variants)} \cup
    {ast.sk_tags[n] : n \in 1..Len(ast.sk_tags)} \cup
    UNION {{ast[t][k] : k \in DOMAIN ast[t]} :
              t \in {"credentials", "case_studies", "services", "training",
                     "vroi_inputs", "vroi_outputs", "stats", "microtraining",
                     "seo", "contact"}}

C7_EmbeddedQuoteRejected ==
    \A i \in Ids :
        LET p == parsers[i] IN
        /\ \A j \in 1..p.current_line : ~HasEmbeddedQuote(p.lines[j])
        /\ p.pc = "raised" /\ HasEmbeddedQuote(CurLine(p)) =>
               p.exc.type = "SyntaxError"
        /\ \A v \in QuotedValues(p.ast) : Find(v, QUOTE, 1) = 0

(***************************************************************************)
(* C8.  The OutputIntent of an AST is absent or one of SMS_CAMPAIGN,       *)
(* AGENT, RMetrics, vROI, MintSite, SK_SKILL; an OUTPUT line naming any    *)
(* other kind makes parse() fail with a SyntaxError that names the invalid *)
(* kind and lists the six valid kinds.                                     *)
(***************************************************************************)
OutputKinds == {"SMS_CAMPAIGN", "AGENT", "RMetrics", "vROI", "MintSite", "SK_SKILL"}

\* The line is OUTPUT <Kind>.
NamesOutput(line) ==
    ~IsComment(line) /\ Dispatch(line) = "OUTPUT" /\ MatchOutput(line).ok

KindNamed(line) == MatchOutput(line).g1

C8_OutputInClosedSet ==
    \A i \in Ids :
        LET p == parsers[i] IN
        /\ p.ast.output \in {None} \cup {Some(k) : k \in OutputKinds}
        /\ \A j \in 1..p.current_line :
               NamesOutput(p.lines[j]) => KindNamed(p.lines[j]) \in OutputKinds
        /\ (p.pc = "raised" /\ NamesOutput(CurLine(p))) =>
               /\ KindNamed(CurLine(p)) \notin OutputKinds
               /\ p.exc.type = "SyntaxError"
               /\ p.exc.text = KindNamed(CurLine(p))
               /\ Len(p.exc.listed) = 6
               /\ {p.exc.listed[n] : n \in 1..Len(p.exc.listed)} = OutputKinds

\* parse() has failed on an OUTPUT line of a kind outside the set, after a
\* valid OUTPUT line.
C8_Witness ==
    \E i \in Ids :
        /\ parsers[i].pc = "raised"
        /\ NamesOutput(CurLine(parsers[i]))
        /\ KindNamed(CurLine(parsers[i])) \notin OutputKinds
        /\ parsers[i].ast.output # None

(***************************************************************************)
(* C9.  With several valid OUTPUT lines parse() succeeds and the           *)
(* OutputIntent is the kind of the last OUTPUT line in file order: an      *)
(* earlier OUTPUT never survives a later one, and the repetition raises    *)
(* no error.                                                               *)
(***************************************************************************)
\* The kind of the last OUTPUT line among lines; None when there is none.
LastOutput(lines) ==
    LET at == {j \in 1..Len(lines) : NamesOutput(lines[j])} IN
    IF at = {} THEN None
    ELSE Some(KindNamed(lines[CHOOSE j \in at : \A k \in at : k <= j]))

C9_LastOutputWins ==
    \A i \in Ids :
        LET p == parsers[i] IN
        /\ p.ast.output = LastOutput(SubSeq(p.lines, 1, p.current_line))
        /\ p.pc = "returned" => p.ast.output = LastOutput(p.lines)
        /\ p.pc = "raised" =>
               ~(NamesOutput(CurLine(p)) /\ KindNamed(CurLine(p)) \in OutputKinds)

\* parse() has returned for a document with two OUTPUT lines of two kinds.
C9_Witness ==
    \E i \in Ids :
        LET p == parsers[i] IN
        /\ p.pc = "returned"
        /\ \E j, k \in 1..Len(p.lines) :
               /\ j < k
               /\ NamesOutput(p.lines[j])
               /\ NamesOutput(p.lines[k])
               /\ KindNamed(p.lines[j]) # KindNamed(p.lines[k])

(***************************************************************************)
(* C10.  After any sequence of parsed lines the primary persona is absent  *)
(* exactly when the persona list is empty and is otherwise the first       *)
(* element of the list; PERSONA lines append to the list in declaration    *)
(* order and never change the primary persona.                             *)
(***************************************************************************)
\* The personas the PERSONA lines among lines declare, in order.
RECURSIVE PersonasOf(_)
PersonasOf(lines) ==
    IF Len(lines) = 0 THEN <<>>
    ELSE LET line == lines[1]
             m == MatchKeyed("PERSONA", line)
         IN  (IF ~IsComment(line) /\ Dispatch(line) = "PERSONA" /\ m.ok
              THEN <<PersonaNode(m.g1, m.g2)>> ELSE <<>>)
             \o PersonasOf(Tail(lines))

C10_PrimaryPersonaIsFirst ==
    \A i \in Ids :
        LET p == parsers[i] IN
        /\ p.ast.personas = PersonasOf(SubSeq(p.lines, 1, p.current_line))
        /\ p.ast.persona = None <=> p.ast.personas = <<>>
        /\ p.ast.personas # <<>> => p.ast.persona = Some(p.ast.personas[1])

\* Two different personas have been parsed.
C10_Witness ==
    \E i \in Ids :
        LET p == parsers[i] IN
        /\ Len(p.ast.personas) >= 2
        /\ p.ast.personas[2] # p.ast.personas[1]
        /\ p.ast.persona = Some(p.ast.personas[1])

(***************************************************************************)
(* C11.  Order preservation: for a successfully parsed document with N     *)
(* GOAL lines the goal sequence has length N and its i-th element carries  *)
(* the name and the text of the i-th GOAL line in source order, duplicates *)
(* included.                                                               *)
(***************************************************************************)
\* The indices, in lines, of the GOAL lines, in increasing order.
RECURSIVE GoalLinesFrom(_, _)
GoalLinesFrom(lines, at) ==
    IF at > Len(lines) THEN <<>>
    ELSE (IF ~IsComment(lines[at]) /\ Dispatch(lines[at]) = "GOAL"
          THEN <<at>> ELSE <<>>) \o GoalLinesFrom(lines, at + 1)

\* The identifier after GOAL and the text between the first two quotes.
GoalNameOf(line) ==
    LET b == SkipIn(line, Len("GOAL") + 1, Whitespace) IN
    SubSeq(line, b, SkipIn(line, b, WordChar) - 1)

GoalTextOf(line) ==
    LET q == Find(line, QUOTE, 1) IN
    SubSeq(line, q + 1, Find(line, QUOTE, q + 1) - 1)

C11_GoalOrderPreserved ==
    \A i \in Ids :
        LET p == parsers[i]
            at == GoalLinesFrom(p.lines, 1)
        IN  p.pc = "returned" =>
                /\ Len(p.ast.goals) = Len(at)
                /\ \A n \in 1..Len(at) :
                       /\ p.ast.goals[n].name = GoalNameOf(p.lines[at[n]])
                       /\ p.ast.goals[n].value = GoalTextOf(p.lines[at[n]])

\* A document with two well-formed GOAL lines of one name has been parsed.
C11_Witness ==
    \E i \in Ids :
        LET p == parsers[i]
            at == GoalLinesFrom(p.lines, 1)
        IN  /\ p.pc = "returned"
            /\ Len(at) = 2
            /\ \A n \in 1..2 : CountQuotes(p.lines[at[n]]) = 2
            /\ Len(p.ast.goals) = 2
            /\ p.ast.goals[1].name = p.ast.goals[2].name

(***************************************************************************)
(* C12.  Fact tables are last-write-wins: after a successful parse each    *)
(* keyed fact table maps each key to the text of the last line in file     *)
(* order that declared the key, holds one entry per distinct key, and a    *)
(* repeated key raises no parse error.  Checked under SpecFacts.           *)
(***************************************************************************)
\* The directive of each fact table and the field of the AST that holds it.
FactTables ==
    {<<"CREDENTIAL", "credentials">>, <<"CASE_STUDY", "case_studies">>,
     <<"SERVICE", "services">>, <<"TRAINING", "training">>,
     <<"VROI_INPUT", "vroi_inputs">>, <<"VROI_OUTPUT", "vroi_outputs">>,
     <<"STAT", "stats">>, <<"MICROTRAINING", "microtraining">>,
     <<"SEO_", "seo">>, <<"CONTACT_", "contact">>}

\* The identifier after the directive's keyword, and the quoted text.
FactKeyOf(directive, line) ==
    LET b == SkipIn(line, Len(directive) + 1, Whitespace) IN
    SubSeq(line, b, SkipIn(line, b, WordChar) - 1)

FactTextOf(line) == GoalTextOf(line)

\* The lines of a directive, and the last of them that declares key.
FactLines(lines, directive) ==
    {j \in 1..Len(lines) : ~IsComment(lines[j]) /\ Dispatch(lines[j]) = directive}

LastDeclaring(lines, directive, key) ==
    LET at == {j \in FactLines(lines, directive) :
                  FactKeyOf(directive, lines[j]) = key}
    IN  CHOOSE j \in at : \A k \in at : k <= j

C12_FactTablesLastWriteWins ==
    \A i \in Ids :
        LET p == parsers[i] IN
        /\ Finished(p) /\ FirstInvalid(p.lines) = 0 => p.pc = "returned"
        /\ p.pc = "returned" =>
               \A t \in FactTables :
                   LET table == p.ast[t[2]] IN
                   /\ DOMAIN table =
                          {FactKeyOf(t[1], p.lines[j]) : j \in FactLines(p.lines, t[1])}
                   /\ \A key \in DOMAIN table :
                          table[key] =
                              FactTextOf(p.lines[LastDeclaring(p.lines, t[1], key)])

\* A key declared twice with two texts has been parsed.
C12_Witness ==
    \E i \in Ids :
        LET p == parsers[i] IN
        /\ p.pc = "returned"
        /\ \E t \in FactTables :
               \E j, k \in FactLines(p.lines, t[1]) :
                   /\ j < k
                   /\ FactKeyOf(t[1], p.lines[j]) = FactKeyOf(t[1], p.lines[k])
                   /\ FactTextOf(p.lines[j]) # FactTextOf(p.lines[k])
                   /\ p.ast[t[2]][FactKeyOf(t[1], p.lines[k])] = FactTextOf(p.lines[k])

(***************************************************************************)
(* C13.  Blank lines and comment lines are dropped: a text and the text    *)
(* without its blank and comment lines agree on whether parse() succeeds   *)
(* and on the AST it returns.  Checked under SpecBlank, whose second       *)
(* parser is given the first one's text with those lines removed.          *)
(***************************************************************************)
C13_BlankAndCommentLinesDropped ==
    Len(parsers) = 2 /\ Finished(parsers[1]) /\ Finished(parsers[2]) =>
        /\ parsers[1].pc = parsers[2].pc
        /\ parsers[1].pc = "returned" => parsers[1].ast = parsers[2].ast

\* Both parses returned, the first text with a blank line, a comment line of
\* the // marker and a directive.
C13_Witness ==
    /\ Len(parsers) = 2
    /\ parsers[1].pc = "returned" /\ parsers[2].pc = "returned"
    /\ \E j, k \in 1..Len(RawLines(parsers[1])) :
           /\ strip(RawLines(parsers[1])[j]) = ""
           /\ startswith(strip(RawLines(parsers[1])[k]), "//")
    /\ Len(RawLines(parsers[2])) = 1
    /\ Len(parsers[1].ast.goals) = 1

(***************************************************************************)
(* Vocabulary of the properties of the validator.                          *)
(***************************************************************************)
\* The number of occurrences of x in seq.
RECURSIVE Count(_, _)
Count(seq, x) ==
    IF Len(seq) = 0 THEN 0
    ELSE (IF Head(seq) = x THEN 1 ELSE 0) + Count(Tail(seq), x)

\* The document of parser p has a line of the directive.
Declares(p, directive) ==
    \E j \in 1..Len(p.lines) : ~IsComment(p.lines[j]) /\ Dispatch(p.lines[j]) = directive

\* validate() has returned, once, on the validator of the i-th parser.
Validated(i) ==
    /\ i \in DOMAIN validators
    /\ validators[i].pc = "returned"
    /\ Len(validators[i].results) = 1

(***************************************************************************)
(* C14.  Mandatory-field check: validate() reports one error for each of   *)
(* no Goal, no Metric, absent OutputIntent, and none of them otherwise; an *)
(* absent Persona gives a warning and no error, so a document with a Goal, *)
(* a Metric and an OutputIntent has no mandatory-field error with or       *)
(* without a Persona.  Checked under SpecMandatory, whose lines have no    *)
(* fault but a name declared twice, so that such a document has no error   *)
(* other than a duplicate name.                                            *)
(***************************************************************************)
C14_MandatoryFields ==
    \A i \in Ids :
        Validated(i) =>
            LET p == parsers[i]
                self == validators[i]
                Expect(present) == IF present THEN 0 ELSE 1
            IN  /\ Count(self.errors, "At least 1 GOAL is required")
                       = Expect(Declares(p, "GOAL"))
                /\ Count(self.errors, "At least 1 METRIC is required")
                       = Expect(Declares(p, "METRIC"))
                /\ Count(self.errors, "OUTPUT declaration is required")
                       = Expect(Declares(p, "OUTPUT"))
                /\ Count(self.warnings, "PERSONA is recommended but not mandatory")
                       = Expect(Declares(p, "PERSONA"))
                /\ Declares(p, "GOAL") /\ Declares(p, "METRIC") /\ Declares(p, "OUTPUT")
                       => \A n \in 1..Len(self.errors) :
                              startswith(self.errors[n], "Duplicate ")

\* A document with a Goal, a Metric and an OutputIntent and no Persona has
\* been validated: no error, and the warning.
C14_Witness ==
    \E i \in Ids :
        /\ Validated(i)
        /\ Declares(parsers[i], "GOAL") /\ Declares(parsers[i], "METRIC")
        /\ Declares(parsers[i], "OUTPUT") /\ ~Declares(parsers[i], "PERSONA")
        /\ validators[i].errors = <<>>
        /\ Count(validators[i].warnings, "PERSONA is recommended but not mandatory") = 1

(***************************************************************************)
(* C15.  Duplicate detection: a Goal, Metric or DerivedMetric name         *)
(* declared k times yields k-1 duplicate-name errors of its entity class,  *)
(* wherever the declarations sit and whatever else is declared (so one     *)
(* error for a Metric name declared twice); a name reused across classes   *)
(* yields none.  Checked under SpecDuplicates.                             *)
(***************************************************************************)
\* The directive of each class with unique names, and its error's wording.
NamedClasses ==
    {<<"GOAL", "Duplicate GOAL name: ">>, <<"METRIC", "Duplicate METRIC name: ">>,
     <<"RMetric", "Duplicate RMetric name: ">>}

\* The lines of the document that declare name in the directive's class.
Declaring(p, directive, name) ==
    {j \in FactLines(p.lines, directive) : FactKeyOf(directive, p.lines[j]) = name}

\* The names the document declares, in any class.
DeclaredNames(p) ==
    UNION {{FactKeyOf(c[1], p.lines[j]) : j \in FactLines(p.lines, c[1])} :
              c \in NamedClasses}

C15_DuplicateErrors ==
    \A i \in Ids :
        Validated(i) =>
            LET p == parsers[i]
                errors == validators[i].errors
            IN  /\ \A c \in NamedClasses : \A name \in DeclaredNames(p) :
                       LET k == Cardinality(Declaring(p, c[1], name)) IN
                       Count(errors, c[2] \o name) = IF k = 0 THEN 0 ELSE k - 1
                /\ \A n \in 1..Len(errors) :
                       startswith(errors[n], "Duplicate ") =>
                           \E c \in NamedClasses : \E name \in DeclaredNames(p) :
                               errors[n] = c[2] \o name

\* A Metric name declared twice with another metric between the two, the
\* name being a Goal's too: one duplicate-name error, of the Metric class.
C15_Witness ==
    \E i \in Ids :
        /\ Validated(i)
        /\ \E name \in DeclaredNames(parsers[i]) :
               /\ \E j, k \in Declaring(parsers[i], "METRIC", name) :
                      /\ k > j + 1
                      /\ Dispatch(parsers[i].lines[j + 1]) = "METRIC"
               /\ Cardinality(Declaring(parsers[i], "METRIC", name)) = 2
               /\ Cardinality(Declaring(parsers[i], "GOAL", name)) = 1
               /\ Count(validators[i].errors, "Duplicate METRIC name: " \o name) = 1
               /\ Count(validators[i].errors, "Duplicate GOAL name: " \o name) = 0

(***************************************************************************)
(* Vocabulary of C16 to C18: the references of derived metrics.            *)
(***************************************************************************)
\* The capitalized words of an expression from position i on: its maximal
\* runs of word characters that begin with a capital, of any length.
RECURSIVE CapitalizedWords(_, _)
CapitalizedWords(s, i) ==
    IF i > Len(s) THEN <<>>
    ELSE LET e == SkipIn(s, i, WordChar) IN
         IF e = i THEN CapitalizedWords(s, i + 1)
         ELSE (IF Ch(s, i) \in Upper THEN <<SubSeq(s, i, e - 1)>> ELSE <<>>)
              \o CapitalizedWords(s, e)

\* The error that names token as undefined in the derived metric name.
UndefinedMetric(name, token) ==
    "RMetric " \o name \o " references undefined METRIC: " \o token

ReservedWords == {"AND", "OR", "NOT", "IF"}

\* The lines that declare a derived metric, and those among them whose
\* name no other line declares (an error that names the derived metric is
\* then an error of that line).
RMetricLines(p) == FactLines(p.lines, "RMetric")

RMetricName(p, j) == FactKeyOf("RMetric", p.lines[j])

RMetricWords(p, j) == CapitalizedWords(FactTextOf(p.lines[j]), 1)

UniqueRMetricLines(p) ==
    {j \in RMetricLines(p) : Cardinality(Declaring(p, "RMetric", RMetricName(p, j))) = 1}

\* token is the name of a Metric declared anywhere in the document or of a
\* derived metric declared before line j.
Resolves(p, j, token) ==
    \/ Declaring(p, "METRIC", token) # {}
    \/ \E k \in Declaring(p, "RMetric", token) : k < j

(***************************************************************************)
(* C16.  The reserved words AND, OR, NOT and IF in the expression of a     *)
(* derived metric cause no 'references undefined METRIC' error.            *)
(* Violated: _validate_rmetrics looks every capitalized token up in the    *)
(* declared names, the reserved words included.                            *)
(***************************************************************************)
C16_ReservedWordsCauseNoError ==
    \A i \in Ids :
        Validated(i) =>
            \A j \in RMetricLines(parsers[i]) : \A word \in ReservedWords :
                Count(validators[i].errors,
                      UndefinedMetric(RMetricName(parsers[i], j), word)) = 0

(***************************************************************************)
(* C17.  For every derived metric and every capitalized word of its        *)
(* expression, of any length, validate() reports the 'undefined METRIC'    *)
(* error naming the word if and only if the word is neither the name of a  *)
(* Metric of the document nor of a derived metric declared earlier.        *)
(* Violated: a one-letter word is never looked up.                         *)
(***************************************************************************)
C17_UndefinedIffUnresolved ==
    \A i \in Ids :
        Validated(i) =>
            LET p == parsers[i] IN
            \A j \in UniqueRMetricLines(p) :
                \A t \in 1..Len(RMetricWords(p, j)) :
                    LET word == RMetricWords(p, j)[t] IN
                    Count(validators[i].errors, UndefinedMetric(RMetricName(p, j), word)) > 0
                        <=> ~Resolves(p, j, word)

(***************************************************************************)
(* C18.  An undefined capitalized token gives one 'undefined METRIC'       *)
(* error per derived metric, however often it occurs in the expression.    *)
(* Stated for the tokens of two characters or more (one-letter tokens are  *)
(* C17).  Violated: the error is appended once per occurrence.             *)
(***************************************************************************)
C18_OneErrorPerUndefinedToken ==
    \A i \in Ids :
        Validated(i) =>
            LET p == parsers[i] IN
            \A j \in UniqueRMetricLines(p) :
                \A t \in 1..Len(RMetricWords(p, j)) :
                    LET word == RMetricWords(p, j)[t] IN
                    Len(word) >= 2 /\ ~Resolves(p, j, word) =>
                        Count(validators[i].errors,
                              UndefinedMetric(RMetricName(p, j), word)) = 1

(***************************************************************************)
(* C19.  validate() reports no trigger error if and only if the whole      *)
(* condition of every trigger is <identifier> <comparator> <number>, the   *)
(* comparator one of > < >= <= == != and the identifier the name of a      *)
(* declared Metric.  Violated: the condition is matched from its start     *)
(* only, and the number is any run of digits and dots.                     *)
(***************************************************************************)
\* A numeric literal: digits with at most one dot, a digit at least.
NumericLiteral(s) ==
    /\ Len(s) > 0
    /\ \A n \in 1..Len(s) : Ch(s, n) \in DigitOrDot
    /\ CountDots(s) <= 1
    /\ CountDots(s) < Len(s)

\* The whole condition is an identifier, a comparator of the six and a
\* numeric literal, and the identifier is a declared Metric of p.
WellFormedCondition(p, condition) ==
    LET a == SkipIn(condition, 1, WordChar)
        b == SkipIn(condition, a, Whitespace)
        c == SkipIn(condition, b, ComparatorChar)
        d == SkipIn(condition, c, Whitespace)
    IN  /\ a > 1
        /\ Declaring(p, "METRIC", SubSeq(condition, 1, a - 1)) # {}
        /\ SubSeq(condition, b, c - 1) \in {">", "<", ">=", "<=", "==", "!="}
        /\ NumericLiteral(SubSeq(condition, d, Len(condition)))

\* An error of _validate_triggers.
TriggerError(msg) ==
    \/ startswith(msg, "Invalid trigger condition syntax: ")
    \/ startswith(msg, "Trigger references undefined METRIC: ")
    \/ startswith(msg, "Invalid comparator '")

C19_TriggerErrorIffMalformed ==
    \A i \in Ids :
        Validated(i) =>
            ((\A n \in 1..Len(validators[i].errors) : ~TriggerError(validators[i].errors[n]))
                <=> \A n \in 1..Len(parsers[i].ast.triggers) :
                        WellFormedCondition(parsers[i], parsers[i].ast.triggers[n].condition))

(***************************************************************************)
(* C20.  validate() never mutates the AST: once validate() has returned,   *)
(* the validator's AST is, field by field, the AST parse() returned.       *)
(***************************************************************************)
C20_ValidateLeavesAst ==
    \A i \in Ids :
        i \in DOMAIN validators /\ validators[i].pc = "returned" =>
            \A field \in DOMAIN ROIDSLAST :
                validators[i].ast[field] = parsers[i].ast[field]

\* validate() has returned, with errors, on an AST with no OutputIntent
\* that has a goal and a fact.
C20_Witness ==
    \E i \in Ids :
        /\ Validated(i)
        /\ validators[i].errors # <<>>
        /\ parsers[i].ast.output = None
        /\ Len(parsers[i].ast.goals) = 1
        /\ DOMAIN parsers[i].ast.credentials # {}

(***************************************************************************)
(* C21.  validate() never raises: on every AST a successful parse()        *)
(* returned, the empty one included, validate() returns its errors and     *)
(* warnings and no check leaves by an exception.  Checked under Spec.      *)
(***************************************************************************)
C21_ValidateNeverRaises ==
    \A v \in DOMAIN validators :
        LET self == validators[v] IN
        /\ self.exc = NoExc
        /\ self.pc \in {"new", "returned"}
        /\ self.pc = "returned" =>
               /\ Len(self.results) > 0
               /\ self.results[Len(self.results)] = Result(self)

\* validate() has returned on the AST of a document with no persona, goal,
\* metric or output and with empty fact tables, the problems as text.
C21_Witness ==
    \E i \in Ids :
        /\ Validated(i)
        /\ parsers[i].ast = ROIDSLAST
        /\ validators[i].results[1].errors =
               <<"At least 1 GOAL is required", "At least 1 METRIC is required",
                 "OUTPUT declaration is required">>

(***************************************************************************)
(* C22.  Validation has no cross-call memory: a second validate() on the   *)
(* same validator returns the errors and warnings the first call returned, *)
(* and what a call returned is not changed by a later call.                *)
(* Violated: self.errors and self.warnings are created by __init__ only,   *)
(* every call appends to them, and the returned dict holds these lists.    *)
(***************************************************************************)
C22_ValidateHasNoMemory ==
    \A v \in DOMAIN validators :
        \A k \in 1..Len(validators[v].results) :
            /\ validators[v].results[k] = validators[v].results[1]
            /\ validators[v].pc = "returned" =>
                   Result(validators[v]) = validators[v].results[k]

(***************************************************************************)
(* Vocabulary of C23, C24 and C30: the commands.                           *)
(***************************************************************************)
\* The errors the checks find for an AST.
ErrorsFor(ast) == RunChecks(ROIValidator(ast)).errors

\* The command's parse() returned, and its validate() returned no error.
CliParsed == Len(parsers) = 1 /\ parsers[1].pc = "returned"

CliValidatedClean ==
    /\ Len(validators) = 1
    /\ validators[1].pc = "returned"
    /\ validators[1].results[1].errors = <<>>

(***************************************************************************)
(* C23.  Acceptance rule: is_valid() is true, and validate_file passes,    *)
(* if and only if the checks find no error for the document; warnings do   *)
(* not count.  Violated: is_valid() reads self.errors, which is empty on   *)
(* every validator until validate() has been called.                       *)
(***************************************************************************)
C23_ValidIffNoError ==
    /\ \A v \in DOMAIN validators :
           is_valid(validators[v]) <=> ErrorsFor(validators[v].ast) = <<>>
    /\ cli.command = "validate" /\ cli.pc = "done" /\ CliParsed =>
           (cli.returned = Some(TRUE) <=> ErrorsFor(parsers[1].ast) = <<>>)

(***************************************************************************)
(* C24.  Downstream consumers run on an error-free AST only: on every      *)
(* command the interpreter and the renderers are invoked only after        *)
(* validate() has returned an empty error list, and nothing is generated   *)
(* when validation reports an error.  Violated: preview_file hands the AST *)
(* to the interpreter without constructing a validator.                    *)
(***************************************************************************)
C24_ConsumersAfterCleanValidation ==
    /\ cli.analysis # "none" \/ cli.attempted # <<>> => CliValidatedClean
    /\ CliParsed /\ ErrorsFor(parsers[1].ast) # <<>> =>
           cli.attempted = <<>> /\ cli.outputs_generated = <<>>

(***************************************************************************)
(* C30.  compile_file() returns True exactly when reading, parsing and     *)
(* validation succeed: with validation passed it returns True though the   *)
(* analysis raises and though no renderer writes an output, and every      *)
(* requested output is attempted whatever the ones before it did.          *)
(* Checked under SpecCli.                                                  *)
(***************************************************************************)
C30_CompileSucceedsIffValidated ==
    cli.command = "compile" /\ cli.pc = "done" =>
        /\ cli.returned = Some(TRUE) <=> (CliParsed /\ CliValidatedClean)
        /\ cli.returned = Some(TRUE) /\ ~cli.dry_run =>
               /\ cli.analysis # "none"
               /\ cli.attempted = requested_outputs(cli, parsers[1].ast)

\* compile_file has returned True after the analysis raised and all three
\* renderers of a MintSite document raised.
C30_Witness ==
    /\ cli.command = "compile" /\ cli.pc = "done"
    /\ cli.returned = Some(TRUE)
    /\ cli.analysis = "raised"
    /\ cli.attempted = <<"mintsite", "agents", "campaigns">>
    /\ cli.outputs_generated = <<>>

(***************************************************************************)
(* C25.  The checks are not short-circuited: every trigger whose action is *)
(* not of the shape name("arg") or name('arg') gets a warning, and no      *)
(* error, whether or not its condition is valid.  Violated: a condition    *)
(* that does not match ends the trigger's turn of the loop before the      *)
(* action is looked at.                                                    *)
(***************************************************************************)
\* The whole action is a name and a quoted word in parentheses.
CallLike(action) ==
    LET a == SkipIn(action, 1, WordChar)
        c == SkipIn(action, a + 2, WordChar)
    IN  /\ a > 1 /\ Ch(action, a) = "("
        /\ Ch(action, a + 1) \in {QUOTE, "'"}
        /\ c > a + 2
        /\ Ch(action, c) = Ch(action, a + 1)
        /\ Ch(action, c + 1) = ")"
        /\ Len(action) = c + 1

ActionWarning(action) == "Action '" \o action \o "' may have invalid syntax"

C25_ActionWarningUnconditional ==
    \A i \in Ids :
        Validated(i) =>
            LET triggers == parsers[i].ast.triggers IN
            /\ \A n \in 1..Len(triggers) :
                   ~CallLike(triggers[n].action) =>
                       Count(validators[i].warnings, ActionWarning(triggers[n].action))
                           = Cardinality({m \in 1..Len(triggers) :
                                             triggers[m].action = triggers[n].action})
            /\ \A n \in 1..Len(validators[i].errors) :
                   ~startswith(validators[i].errors[n], "Action '")

(***************************************************************************)
(* C26.  The secondary reference sweep adds warnings only: the errors      *)
(* after it are the errors before it, and it warns, for each derived       *)
(* metric in order, about every capitalized token of the expression that   *)
(* is not a declared Metric name and not AND, OR, NOT or IF, a reference   *)
(* to an earlier derived metric included.  The tokens are the capitalized  *)
(* words of two characters or more.  Checked under SpecReferences.         *)
(***************************************************************************)
\* The validator as the eight checks before the sweep leave it.
BeforeSweep(ast) ==
    LET s1 == _validate_mandatory_fields(ROIValidator(ast))
        s2 == Then(s1, _validate_persona)
        s3 == Then(s2, _validate_goals)
        s4 == Then(s3, _validate_metrics)
        s5 == Then(s4, _validate_rmetrics)
        s6 == Then(s5, _validate_triggers)
        s7 == Then(s6, _validate_variants)
    IN  Then(s7, _validate_output)

SweepWarning(name, token) ==
    "RMetric " \o name \o " references '" \o token
        \o "' which is not a declared METRIC"

\* The warnings the sweep owes to the words of one derived metric, from
\* the t-th word on, and to the lines of the document from line j on.
RECURSIVE SweepOfWords(_, _, _, _)
SweepOfWords(p, name, words, t) ==
    IF t > Len(words) THEN <<>>
    ELSE (IF /\ Len(words[t]) >= 2
             /\ Declaring(p, "METRIC", words[t]) = {}
             /\ words[t] \notin ReservedWords
          THEN <<SweepWarning(name, words[t])>> ELSE <<>>)
         \o SweepOfWords(p, name, words, t + 1)

RECURSIVE SweepOfLines(_, _)
SweepOfLines(p, j) ==
    IF j > Len(p.lines) THEN <<>>
    ELSE (IF j \in RMetricLines(p)
          THEN SweepOfWords(p, RMetricName(p, j), RMetricWords(p, j), 1) ELSE <<>>)
         \o SweepOfLines(p, j + 1)

EmptyValueReport(msg) ==
    \/ msg = "PERSONA value cannot be empty"
    \/ /\ Len(msg) > Len(" has empty value")
       /\ SubSeq(msg, Len(msg) - Len(" has empty value") + 1, Len(msg))
              = " has empty value"

NegativeValueReport(msg) == Contains(msg, " has negative value: ")

C28_ParsedValuesNonEmpty ==
    /\ \A i \in Ids :
           parsers[i].pc = "returned" =>
               LET ast == parsers[i].ast IN
               /\ "" \notin QuotedValues(ast)
               /\ ast.persona # None => ast.persona[1].value # ""
               /\ \A n \in 1..Len(ast.metrics) : ast.metrics[n].value.num >= 0
    /\ \A v \in DOMAIN validators :
           /\ \A n \in 1..Len(validators[v].errors) :
                  ~EmptyValueReport(validators[v].errors[n])
           /\ \A n \in 1..Len(validators[v].warnings) :
                  ~NegativeValueReport(validators[v].warnings[n])

\* validate() has returned on a parsed document that declares a Goal and a
\* Variant, or a Persona and a Metric.
C28_Witness ==
    \E i \in Ids :
        /\ Validated(i)
        /\ \/ Len(parsers[i].ast.goals) = 1 /\ Len(parsers[i].ast.variants) = 1
           \/ parsers[i].ast.persona # None /\ Len(parsers[i].ast.metrics) = 1

(***************************************************************************)
(* C27.  In every document that validate() accepts with zero errors the    *)
(* dependency graph of the derived metrics is acyclic: no derived metric   *)
(* refers to its own name, nor, directly or through a chain, to a derived  *)
(* metric that refers back to it, whatever the names (one-letter and       *)
(* lowercase-leading names included).  Checked under SpecCycles.           *)
(***************************************************************************)
\* The words of an expression from position i on: its maximal runs of word
\* characters.
RECURSIVE WordsOf(_, _)
WordsOf(s, i) ==
    IF i > Len(s) THEN {}
    ELSE LET e == SkipIn(s, i, WordChar) IN
         IF e = i THEN WordsOf(s, i + 1)
         ELSE {SubSeq(s, i, e - 1)} \cup WordsOf(s, e)

\* The derived metrics that the derived metric called name refers to.
RefersTo(ast, name) ==
    {ast.rmetrics[m].name : m \in 1..Len(ast.rmetrics)} \cap
    UNION {WordsOf(ast.rmetrics[n].expr, 1) :
               n \in {k \in 1..Len(ast.rmetrics) : ast.rmetrics[k].name = name}}

\* The derived metrics reached from names by chains of 1 to n references.
RECURSIVE ReachedFrom(_, _, _)
ReachedFrom(ast, names, n) ==
    IF n = 0 THEN {}
    ELSE LET next == UNION {RefersTo(ast, name) : name \in names} IN
         next \cup ReachedFrom(ast, next, n - 1)

Cyclic(ast) ==
    \E n \in 1..Len(ast.rmetrics) :
        ast.rmetrics[n].name \in ReachedFrom(ast, {ast.rmetrics[n].name}, Len(ast.rmetrics))

C27_AcceptedIsAcyclic ==
    \A i \in Ids :
        Validated(i) /\ validators[i].errors = <<>> => ~Cyclic(parsers[i].ast)

(***************************************************************************)
(* C29.  Calling parse() again on the same parser is idempotent: after a   *)
(* successful parse a second call processes no line and returns the same   *)
(* AST, no entity appended twice; after a failed parse a second call fails *)
(* again on the same line with the same exception, the lines before it not *)
(* applied again.  As a property of the steps: from the second call on, no *)
(* step changes the AST, the position or the exception, and the call ends  *)
(* as the first one did.  Checked under SpecAgain.                         *)
(***************************************************************************)
C29_ParseAgainIdempotent ==
    [][\A i \in DOMAIN parsers :
           parsers'[i].calls >= 2 =>
               /\ parsers'[i].ast = parsers[i].ast
               /\ parsers'[i].current_line = parsers[i].current_line
               /\ parsers'[i].exc = parsers[i].exc
               /\ parsers'[i].pc = "returned" => parsers[i].exc = NoExc
               /\ parsers'[i].pc = "raised" => parsers[i].exc # NoExc]_vars

\* A second call has returned an AST with a goal and a second call on
\* another parser has raised behind a goal it had applied.
C29_Witness ==
    \E i, j \in Ids :
        /\ parsers[i].calls = 2 /\ parsers[i].pc = "returned"
        /\ Len(parsers[i].ast.goals) >= 1
        /\ parsers[j].calls = 2 /\ parsers[j].pc = "raised"
        /\ parsers[j].current_line = 1
        /\ Len(parsers[j].ast.goals) = 1

====
